---- MODULE Spec2Model ----
(***************************************************************************)
(* The signed datastore of blockstack_client: the type-qualified calls of  *)
(* blockstack_client/actions.py (create/get/delete datastore, getfile,     *)
(* putfile, listdir, stat, getinode, mkdir, rmdir, rmtree, deletefile)     *)
(* over the inode layer of blockstack_client/data.py.  The inode layer is  *)
(* imported by actions.py (line 142) and is modelled from its              *)
(* specification; the calls of actions.py are modelled from their code.    *)
(***************************************************************************)
EXTENDS Integers, Sequences, FiniteSets, TLC

(***************************************************************************)
(* Bounds of the model.                                                    *)
(***************************************************************************)
MaxUuid == 3
MaxVersion == 3
MaxDepth == 2
MaxTreeUuid == 4
MaxTreeVersion == 4
MaxRaceVersion == 4

Names == {"a", "b"}
\* payloads (strings, as sequences of characters) handed to putfile
Data == {<<"x">>, <<"f">>, <<"\t">>, <<"d">>}
\* the local files of the caller: name -> contents
LocalFiles == [p \in {<<"f">>, <<"\t">>} |-> <<"x">>]
\* local paths that exist and cannot be read as a file (a directory)
LocalDirs == {<<"d">>}
\* string.printable, within the characters of the payloads
Printable == {"x", "y", "f", "d", "\t"}
DriverNames == {"disk", "lazy"}
\* the drivers whose delete may be a no-op (storage driver delete is best effort)
LazyDrivers == {"lazy"}
DriverLists == {<<"disk">>, <<"lazy", "disk">>}
Devices == {"d1", "d2"}
\* the device the calls are made on
LocalDevice == "d1"
DatastoreTypes == {"datastore", "collection"}
Uuids == 1..(IF MaxUuid > MaxTreeUuid THEN MaxUuid ELSE MaxTreeUuid)
Paths == UNION {[1..n -> Names] : n \in 0..MaxDepth}
LeafPaths == Paths \ {<<>>}

(***************************************************************************)
(* errno values carried by the results.                                    *)
(***************************************************************************)
EPERM == 1
ENOENT == 2
EEXIST == 17
ENOTDIR == 20
EISDIR == 21
EINVAL == 22
ENOTEMPTY == 39

MUTABLE_DATUM_FILE_TYPE == "file"
MUTABLE_DATUM_DIR_TYPE == "dir"

(***************************************************************************)
(* Records.                                                                *)
(***************************************************************************)
NoChildren == [n \in {} |-> 0]
NoInode == [type |-> "none", version |-> 0, children |-> NoChildren, data |-> <<>>]
NoDatastore == [exists |-> FALSE, type |-> "", root_uuid |-> 0, drivers |-> <<>>]

\* a result with neither 'error' nor 'errno'
Ok(uuid, inode) == [error |-> FALSE, errno |-> 0, uuid |-> uuid, inode |-> inode]
StatusTrue == Ok(0, NoInode)
\* {'error': ..., 'errno': e}; errno 0 stands for a result without an 'errno' key
Err(e) == [error |-> TRUE, errno |-> e, uuid |-> 0, inode |-> NoInode]

Range(s) == {s[i] : i \in DOMAIN s}
Max(S) == CHOOSE x \in S : \A y \in S : y <= x
Min(S) == CHOOSE x \in S : \A y \in S : x <= y
Front(s) == SubSeq(s, 1, Len(s) - 1)
Last(s) == s[Len(s)]

(***************************************************************************)
(* Storage drivers: key -> bytes, one key per data id.                     *)
(***************************************************************************)
driver_put(st, drivers, u, env) ==
    [st EXCEPT !.blobs = [d \in DriverNames |-> [x \in Uuids |->
                   IF x = u /\ d \in Range(drivers) THEN env ELSE st.blobs[d][x]]],
               !.forged = @ \ {<<d, u>> : d \in Range(drivers)}]

\* nodel: the drivers that do not carry out this delete
driver_delete(st, drivers, u, nodel) ==
    [st EXCEPT !.blobs = [d \in DriverNames |-> [x \in Uuids |->
                   IF x = u /\ d \in Range(drivers) /\ d \notin nodel THEN NoInode
                   ELSE st.blobs[d][x]]],
               !.forged = @ \ {<<d, u>> : d \in Range(drivers) \ nodel}]

\* the first configured driver that has the key answers
driver_get(st, u) ==
    LET drivers == st.ds.drivers
        hits == {i \in DOMAIN drivers : st.blobs[drivers[i]][u].type # "none"}
    IN  IF hits = {} THEN NoInode ELSE st.blobs[drivers[Min(hits)]][u]

\* the driver whose envelope driver_get hands back
serving(st, u) ==
    LET drivers == st.ds.drivers
        hits == {i \in DOMAIN drivers : st.blobs[drivers[i]][u].type # "none"}
    IN  drivers[Min(hits)]

(***************************************************************************)
(* Envelope codec.  The envelopes that save_inode writes are signed with   *)
(* the owning key; st.forged are the keys under which a driver serves an   *)
(* envelope that was signed with another key.                              *)
(***************************************************************************)
\* decode fails with BadSignature; no errno is specified for it
BadSignature == Err(0)

\* verify, for the envelope that the drivers serve for u
verify(st, u) == <<serving(st, u), u>> \notin st.forged

(***************************************************************************)
(* Version reconciler.                                                     *)
(***************************************************************************)
current_version(st, u, device_ids) ==
    Max({0} \cup {st.vers[d][u] : d \in device_ids})

\* a variant that takes the version of the last device asked
current_version_list_last_device(st, u, device_ids) ==
    IF device_ids = <<>> THEN 0
    ELSE st.vers[device_ids[Len(device_ids)]][u]

\* the same query over the device list as it is given, one device after the
\* other; a device with no record answers 0
RECURSIVE current_version_list(_, _, _)
current_version_list(st, u, device_ids) ==
    IF device_ids = <<>> THEN 0
    ELSE LET rest == current_version_list(st, u, Tail(device_ids))
             mine == st.vers[Head(device_ids)][u]
         IN  IF mine > rest THEN mine ELSE rest

\* a variant that writes the current version again
next_version_not_incremented(st, u, device_ids) == current_version(st, u, device_ids)

next_version(st, u, device_ids) == current_version(st, u, device_ids) + 1

(***************************************************************************)
(* Tombstones.                                                             *)
(***************************************************************************)
make_tombstones(u, device_ids) == {<<u, d>> : d \in device_ids}

is_tombstoned(st, u, d) == <<u, d>> \in st.tombs

(***************************************************************************)
(* Inode store.                                                            *)
(***************************************************************************)
create_inode(inode_type) ==
    [type |-> inode_type, version |-> 0, children |-> NoChildren, data |-> <<>>]

\* a variant that does not verify the signature of the envelope
load_inode_unverified(st, u, force) ==
    LET env == driver_get(st, u) IN
    IF env.type = "none" THEN Err(ENOENT)
    ELSE IF ~force /\ \E d \in Devices : is_tombstoned(st, u, d) THEN Err(ENOENT)
    ELSE IF ~force /\ env.version < current_version(st, u, Devices) THEN Err(EPERM)
    ELSE Ok(u, env)

load_inode(st, u, force) ==
    LET env == driver_get(st, u) IN
    IF env.type = "none" THEN Err(ENOENT)
    ELSE IF ~verify(st, u) THEN BadSignature
    ELSE IF ~force /\ \E d \in Devices : is_tombstoned(st, u, d) THEN Err(ENOENT)
    ELSE IF ~force /\ env.version < current_version(st, u, Devices) THEN Err(EPERM)
    ELSE Ok(u, env)

save_inode(st, drivers, u, inode, dev) ==
    LET v == next_version(st, u, Devices)
        env == [inode EXCEPT !.version = v]
        st1 == driver_put(st, drivers, u, env)
    IN  [st1 EXCEPT !.vers = [d \in Devices |-> [x \in Uuids |->
            IF d = dev /\ x = u THEN v ELSE st.vers[d][x]]]]

\* deletion: a tombstone for every device of the device set, then the drivers' delete
delete_inode(st, u, nodel) ==
    LET st1 == [st EXCEPT !.tombs = @ \cup make_tombstones(u, Devices)]
    IN  driver_delete(st1, st.ds.drivers, u, nodel)

(***************************************************************************)
(* Path resolver.                                                          *)
(***************************************************************************)
RECURSIVE walk(_, _, _, _)
walk(st, cur, path, force) ==
    IF cur.error THEN cur
    ELSE IF path = <<>> THEN cur
    ELSE IF cur.inode.type # MUTABLE_DATUM_DIR_TYPE THEN Err(ENOTDIR)
    ELSE IF Head(path) \notin DOMAIN cur.inode.children THEN Err(ENOENT)
    ELSE walk(st, load_inode(st, cur.inode.children[Head(path)].uuid, force),
              Tail(path), force)

resolve(st, path, force) ==
    IF st.ds.type = "collection" /\ Len(path) > 1 THEN Err(EINVAL)
    ELSE walk(st, load_inode(st, st.ds.root_uuid, force), path, force)

\* the directory that holds the leaf of a non-empty path
resolve_parent(st, path, force) ==
    IF st.ds.type = "collection" /\ Len(path) > 1 THEN Err(EINVAL)
    ELSE LET r == resolve(st, Front(path), force) IN
         IF r.error THEN r
         ELSE IF r.inode.type # MUTABLE_DATUM_DIR_TYPE THEN Err(ENOTDIR)
         ELSE r

add_entry(dir, name, u, inode_type) ==
    [dir EXCEPT !.children = [n \in DOMAIN dir.children \cup {name} |->
        IF n = name THEN [uuid |-> u, type |-> inode_type] ELSE dir.children[n]]]

remove_entry(dir, name) ==
    [dir EXCEPT !.children = [n \in DOMAIN dir.children \ {name} |-> dir.children[n]]]

(***************************************************************************)
(* Directory and file operations of the inode layer.  Each returns the     *)
(* store after the call and the result handed to the caller.               *)
(***************************************************************************)
Ret(st, res) == [st |-> st, res |-> res]

\* a variant that needs every driver to take the write
save_inode_failing_needs_all(st, drivers, u, inode, dev, failed) ==
    LET v == next_version(st, u, Devices)
        env == [inode EXCEPT !.version = v]
        took == SelectSeq(drivers, LAMBDA d : d \notin failed)
        st1 == driver_put(st, took, u, env)
    IN  IF took # drivers THEN Ret(st, Err(EPERM))
        ELSE Ret([st1 EXCEPT !.vers = [d \in Devices |-> [x \in Uuids |->
                     IF d = dev /\ x = u THEN v ELSE st.vers[d][x]]]], StatusTrue)

\* save_inode when the writes to the drivers in failed fail: the envelope goes
\* to every configured driver, and the save succeeds if one of them took it
save_inode_failing(st, drivers, u, inode, dev, failed) ==
    LET v == next_version(st, u, Devices)
        env == [inode EXCEPT !.version = v]
        took == SelectSeq(drivers, LAMBDA d : d \notin failed)
        st1 == driver_put(st, took, u, env)
    IN  IF took = <<>> THEN Ret(st, Err(EPERM))
        ELSE Ret([st1 EXCEPT !.vers = [d \in Devices |-> [x \in Uuids |->
                     IF d = dev /\ x = u THEN v ELSE st.vers[d][x]]]], StatusTrue)

\* a variant that hands out the same uuid again
alloc_uuid_keeps_next(st) == st

\* allocate the next unused uuid
alloc_uuid(st) == [st EXCEPT !.next = @ + 1]

datastore_mkdir(st, path, dev) ==
    LET p == resolve_parent(st, path, FALSE)
        name == Last(path)
    IN  IF p.error THEN Ret(st, p)
        ELSE IF name \in DOMAIN p.inode.children THEN Ret(st, Err(EEXIST))
        ELSE LET u == st.next
                 st1 == save_inode(alloc_uuid(st), st.ds.drivers, u,
                                   create_inode(MUTABLE_DATUM_DIR_TYPE), dev)
                 st2 == save_inode(st1, st.ds.drivers, p.uuid,
                                   add_entry(p.inode, name, u, MUTABLE_DATUM_DIR_TYPE), dev)
             IN  Ret(st2, StatusTrue)

datastore_putfile(st, path, data, create, force, dev) ==
    LET p == resolve_parent(st, path, force)
        name == Last(path)
    IN  IF p.error THEN Ret(st, p)
        ELSE IF name \in DOMAIN p.inode.children
        THEN IF create THEN Ret(st, Err(EEXIST))
             ELSE IF p.inode.children[name].type # MUTABLE_DATUM_FILE_TYPE
             THEN Ret(st, Err(EISDIR))
             ELSE LET f == load_inode(st, p.inode.children[name].uuid, force) IN
                  IF f.error THEN Ret(st, f)
                  ELSE Ret(save_inode(st, st.ds.drivers, f.uuid,
                                      [f.inode EXCEPT !.data = data], dev), StatusTrue)
        ELSE LET u == st.next
                 file == [create_inode(MUTABLE_DATUM_FILE_TYPE) EXCEPT !.data = data]
                 st1 == save_inode(alloc_uuid(st), st.ds.drivers, u, file, dev)
                 st2 == save_inode(st1, st.ds.drivers, p.uuid,
                                   add_entry(p.inode, name, u, MUTABLE_DATUM_FILE_TYPE), dev)
             IN  Ret(st2, StatusTrue)

\* the version records the reconciler gets when the devices in down do not
\* answer its query: theirs are missing
Answering(st, down) ==
    [st EXCEPT !.vers = [d \in Devices |->
        IF d \in down THEN [u \in Uuids |-> 0] ELSE st.vers[d]]]

\* the records of the devices that did not answer are as they were
Unanswered(r, st, down) ==
    [r EXCEPT !.st.vers = [d \in Devices |->
        IF d \in down THEN st.vers[d] ELSE r.st.vers[d]]]

\* putfile when the version query of the devices in down fails: strict without
\* force (the write fails as a whole), permissive with force (the write goes
\* on with the devices that answered)
datastore_putfile_down(st, path, data, create, force, dev, down) ==
    LET whole == datastore_putfile(st, path, data, create, force, dev) IN
    IF down = {} \/ whole.res.error THEN whole
    ELSE IF ~force THEN Ret(st, Err(EPERM))
    ELSE Unanswered(datastore_putfile(Answering(st, down), path, data, create, TRUE, dev),
                    st, down)

datastore_getfile(st, path, force) ==
    LET r == resolve(st, path, force) IN
    IF r.error THEN r
    ELSE IF r.inode.type # MUTABLE_DATUM_FILE_TYPE THEN Err(EISDIR)
    ELSE r

datastore_listdir(st, path, force) ==
    LET r == resolve(st, path, force) IN
    IF r.error THEN r
    ELSE IF r.inode.type # MUTABLE_DATUM_DIR_TYPE THEN Err(ENOTDIR)
    ELSE r

datastore_stat(st, path, force) == resolve(st, path, force)

datastore_getinode(st, u) == load_inode(st, u, FALSE)

datastore_deletefile(st, path, force, dev, nodel) ==
    LET p == resolve_parent(st, path, force)
        name == Last(path)
    IN  IF p.error THEN Ret(st, p)
        ELSE IF name \notin DOMAIN p.inode.children THEN Ret(st, Err(ENOENT))
        ELSE IF p.inode.children[name].type # MUTABLE_DATUM_FILE_TYPE
        THEN Ret(st, Err(EISDIR))
        ELSE LET st1 == save_inode(st, st.ds.drivers, p.uuid,
                                   remove_entry(p.inode, name), dev)
             IN  Ret(delete_inode(st1, p.inode.children[name].uuid, nodel), StatusTrue)

datastore_rmdir(st, path, force, dev, nodel) ==
    LET p == resolve_parent(st, path, force)
        name == Last(path)
    IN  IF p.error THEN Ret(st, p)
        ELSE IF name \notin DOMAIN p.inode.children THEN Ret(st, Err(ENOENT))
        ELSE IF p.inode.children[name].type # MUTABLE_DATUM_DIR_TYPE
        THEN Ret(st, Err(ENOTDIR))
        ELSE LET c == load_inode(st, p.inode.children[name].uuid, force) IN
             IF c.error THEN Ret(st, c)
             ELSE IF DOMAIN c.inode.children # {} THEN Ret(st, Err(ENOTEMPTY))
             ELSE LET st1 == save_inode(st, st.ds.drivers, p.uuid,
                                        remove_entry(p.inode, name), dev)
                  IN  Ret(delete_inode(st1, c.uuid, nodel), StatusTrue)

\* tombstone the inode u and every inode below it, children first
RECURSIVE rmtree_inode(_, _, _)
RECURSIVE rmtree_children(_, _, _)
rmtree_inode(st, u, nodel) ==
    LET r == load_inode(st, u, FALSE) IN
    IF r.error THEN Ret(st, r)
    ELSE LET sub == rmtree_children(st, r.inode.children, nodel) IN
         IF sub.res.error THEN sub
         ELSE Ret(delete_inode(sub.st, u, nodel), StatusTrue)

rmtree_children(st, children, nodel) ==
    IF DOMAIN children = {} THEN Ret(st, StatusTrue)
    ELSE LET n == CHOOSE x \in DOMAIN children : TRUE
             one == rmtree_inode(st, children[n].uuid, nodel)
         IN  IF one.res.error THEN one
             ELSE rmtree_children(one.st,
                      [x \in DOMAIN children \ {n} |-> children[x]], nodel)

datastore_rmtree(st, path, dev, nodel) ==
    IF path = <<>>
    THEN LET r == resolve(st, path, FALSE) IN
         IF r.error THEN Ret(st, r)
         ELSE LET sub == rmtree_children(st, r.inode.children, nodel) IN
              IF sub.res.error THEN sub
              ELSE IF DOMAIN r.inode.children = {} THEN Ret(st, StatusTrue)
              ELSE Ret(save_inode(sub.st, st.ds.drivers, r.uuid,
                                  [r.inode EXCEPT !.children = NoChildren], dev),
                       StatusTrue)
    ELSE LET p == resolve_parent(st, path, FALSE)
             name == Last(path)
         IN  IF p.error THEN Ret(st, p)
             ELSE IF name \notin DOMAIN p.inode.children THEN Ret(st, Err(ENOENT))
             ELSE LET sub == rmtree_inode(st, p.inode.children[name].uuid, nodel) IN
                  IF sub.res.error THEN sub
                  ELSE Ret(save_inode(sub.st, st.ds.drivers, p.uuid,
                                      remove_entry(p.inode, name), dev), StatusTrue)

(***************************************************************************)
(* Datastore records.                                                      *)
(***************************************************************************)
\* rpc.backend_datastore_get: the record, or an error; be is the errno the
\* backend puts in its error (0: the error carries no errno)
backend_datastore_get(st, be) ==
    IF st.ds.exists THEN [error |-> FALSE, errno |-> 0, datastore |-> st.ds]
    ELSE [error |-> TRUE, errno |-> be, datastore |-> NoDatastore]

make_datastore_info(st, datastore_type, drivers) ==
    [exists |-> TRUE, type |-> datastore_type, root_uuid |-> st.next, drivers |-> drivers]

\* stores the datastore record and its empty root directory
put_datastore(st, datastore_info, dev) ==
    LET st1 == [alloc_uuid(st) EXCEPT !.ds = datastore_info] IN
    Ret(save_inode(st1, datastore_info.drivers, datastore_info.root_uuid,
                   create_inode(MUTABLE_DATUM_DIR_TYPE), dev), StatusTrue)

\* deletes the root directory and the datastore record
delete_datastore(st, nodel) ==
    LET st1 == delete_inode(st, st.ds.root_uuid, nodel) IN
    Ret([st1 EXCEPT !.ds = NoDatastore], StatusTrue)

(***************************************************************************)
(* blockstack_client/actions.py                                            *)
(***************************************************************************)
is_valid_path(path) ==
    LET valid_chars == Printable \ {"\t", "\n", "\r"}
        valid(c) == c \in valid_chars
    IN  SelectSeq(path, valid) = path

os_path_exists(path) == path \in DOMAIN LocalFiles \cup LocalDirs

\* an exception raised to the caller, who gets no result: errno -1 stands for it
Raised == Err(0 - 1)

\* config.get_all_device_ids: the device set
get_all_device_ids == Devices

\* the storage drivers that delete_mutable is run on
StorageDrivers == <<"lazy", "disk">>

\* data.delete_mutable: stores the tombstones it is given and deletes the datum
\* from the drivers; ok says whether storage takes the request
delete_mutable(st, data_id, signed_data_tombstones, ok) ==
    IF ok
    THEN Ret(driver_delete([st EXCEPT !.tombs = @ \cup signed_data_tombstones],
                           StorageDrivers, data_id, {}), StatusTrue)
    ELSE Ret(st, Err(0))

\* what the second delete_mutable call of cli_delete_mutable, made without
\* tombstones and device ids, can do: raise TypeError, fail, or succeed
SecondCall == {"raise", "error", "ok"}

\* valid: the name is well formed, its zone file has a key and the wallet opens;
\* the result of the first call is overwritten by that of the second
cli_delete_mutable(st, data_id, valid, first_ok, second) ==
    IF ~valid THEN Ret(st, Err(0))
    ELSE LET device_ids == get_all_device_ids
             data_tombstones == make_tombstones(data_id, device_ids)
             first == delete_mutable(st, data_id, data_tombstones, first_ok)
         IN  IF second = "raise" THEN Ret(first.st, Raised)
             ELSE delete_mutable(first.st, data_id, {}, second = "ok")

\* a variant that stops after the rmtree and leaves the record in place
_remove_datastore_keeps_record(st, rmtree, force, dev, nodel) ==
    LET res == IF rmtree THEN datastore_rmtree(st, <<>>, dev, nodel)
               ELSE Ret(st, StatusTrue)
    IN  IF rmtree /\ res.res.error /\ ~force THEN Ret(res.st, Err(ENOTEMPTY))
        ELSE Ret(res.st, StatusTrue)

\* a variant that deletes the record whatever the rmtree returned
_remove_datastore_always_forces(st, rmtree, force, dev, nodel) ==
    LET res == IF rmtree THEN datastore_rmtree(st, <<>>, dev, nodel)
               ELSE Ret(st, StatusTrue)
    IN  delete_datastore(res.st, nodel)

_remove_datastore(st, rmtree, force, dev, nodel) ==
    LET res == IF rmtree THEN datastore_rmtree(st, <<>>, dev, nodel)
               ELSE Ret(st, StatusTrue)
    IN  IF rmtree /\ res.res.error /\ ~force THEN Ret(res.st, Err(ENOTEMPTY))
        ELSE delete_datastore(res.st, nodel)

\* a variant that does not look for an existing record
create_datastore_by_type_overwrites(st, be, datastore_type, drivers, dev) ==
    LET put == put_datastore(st, make_datastore_info(st, datastore_type, drivers), dev)
    IN  IF put.res.error THEN put ELSE Ret(put.st, StatusTrue)

create_datastore_by_type(st, be, datastore_type, drivers, dev) ==
    LET res == backend_datastore_get(st, be) IN
    IF ~res.error THEN Ret(st, Err(EEXIST))
    ELSE LET put == put_datastore(st, make_datastore_info(st, datastore_type, drivers), dev)
         IN  IF put.res.error THEN put ELSE Ret(put.st, StatusTrue)

get_datastore_by_type(st, be, datastore_type) ==
    LET datastore_info == backend_datastore_get(st, be) IN
    IF datastore_info.error THEN datastore_info
    ELSE IF datastore_info.datastore.type # datastore_type
    THEN [error |-> TRUE, errno |-> 0, datastore |-> NoDatastore]
    ELSE datastore_info

delete_datastore_by_type(st, be, datastore_type, force, dev, nodel) ==
    LET datastore_info == backend_datastore_get(st, be) IN
    IF datastore_info.error THEN Ret(st, Err(datastore_info.errno))
    ELSE IF datastore_info.datastore.type # datastore_type THEN Ret(st, Err(0))
    ELSE LET res == _remove_datastore(st, TRUE, force, dev, nodel) IN
         IF res.res.error THEN res ELSE Ret(res.st, StatusTrue)

cli_delete_datastore(st, be, force, dev, nodel) ==
    delete_datastore_by_type(st, be, "datastore", force, dev, nodel)

datastore_file_get(st, be, datastore_type, path, force) ==
    LET datastore_info == backend_datastore_get(st, be) IN
    IF datastore_info.error
    THEN Err(IF datastore_info.errno = 0 THEN EPERM ELSE datastore_info.errno)
    ELSE IF datastore_info.datastore.type # datastore_type THEN Err(0)
    ELSE datastore_getfile(st, path, force)

\* a variant that reads the named file whatever force_data says
file_put_data_ignores_force_data(data, force_data) ==
    IF is_valid_path(data) /\ os_path_exists(data)
    THEN IF data \in DOMAIN LocalFiles THEN Ok(0, [NoInode EXCEPT !.data = LocalFiles[data]])
         ELSE Err(0)
    ELSE Ok(0, [NoInode EXCEPT !.data = data])

\* what putfile stores for the argument data
file_put_data(data, force_data) ==
    IF is_valid_path(data) /\ os_path_exists(data) /\ ~force_data
    THEN IF data \in DOMAIN LocalFiles THEN Ok(0, [NoInode EXCEPT !.data = LocalFiles[data]])
         ELSE Err(0)
    ELSE Ok(0, [NoInode EXCEPT !.data = data])

\* a variant that reports the result of putfile and stores nothing
datastore_file_put_stores_nothing(st, be, datastore_type, path, data, create, force_data, force, dev) ==
    LET read == file_put_data(data, force_data)
        datastore_info == backend_datastore_get(st, be)
    IN  IF read.error THEN Ret(st, read)
        ELSE IF datastore_info.error THEN Ret(st, Err(datastore_info.errno))
        ELSE Ret(st, datastore_putfile(st, path, read.inode.data, create, FALSE, dev).res)

datastore_file_put(st, be, datastore_type, path, data, create, force_data, force, dev) ==
    LET read == file_put_data(data, force_data)
        datastore_info == backend_datastore_get(st, be)
    IN  IF read.error THEN Ret(st, read)
        ELSE IF datastore_info.error THEN Ret(st, Err(datastore_info.errno))
        ELSE datastore_putfile(st, path, read.inode.data, create, FALSE, dev)

\* a variant that lists any path of a collection
datastore_dir_list_lists_any_path(st, be, datastore_type, path, force) ==
    LET datastore_info == backend_datastore_get(st, be) IN
    IF datastore_info.error
    THEN Err(IF datastore_info.errno = 0 THEN EPERM ELSE datastore_info.errno)
    ELSE IF datastore_info.datastore.type # datastore_type THEN Err(EINVAL)
    ELSE datastore_listdir(st, path, force)

datastore_dir_list(st, be, datastore_type, path, force) ==
    LET datastore_info == backend_datastore_get(st, be) IN
    IF datastore_info.error
    THEN Err(IF datastore_info.errno = 0 THEN EPERM ELSE datastore_info.errno)
    ELSE IF datastore_info.datastore.type # datastore_type THEN Err(EINVAL)
    ELSE IF datastore_type = "collection" /\ path # <<>> THEN Err(EINVAL)
    ELSE datastore_listdir(st, path, force)

\* a variant that reads the path as a file
datastore_path_stat_reads_file(st, be, datastore_type, path, force) ==
    LET datastore_info == backend_datastore_get(st, be) IN
    IF datastore_info.error THEN Err(datastore_info.errno)
    ELSE IF datastore_info.datastore.type # datastore_type THEN Err(0)
    ELSE datastore_getfile(st, path, force)

\* a variant that always reads with force
datastore_path_stat_forces(st, be, datastore_type, path, force) ==
    LET datastore_info == backend_datastore_get(st, be) IN
    IF datastore_info.error THEN Err(datastore_info.errno)
    ELSE IF datastore_info.datastore.type # datastore_type THEN Err(0)
    ELSE datastore_stat(st, path, TRUE)

\* a variant that resolves the first segment of the path only
datastore_path_stat_first_segment(st, be, datastore_type, path, force) ==
    LET datastore_info == backend_datastore_get(st, be) IN
    IF datastore_info.error THEN Err(datastore_info.errno)
    ELSE IF datastore_info.datastore.type # datastore_type THEN Err(0)
    ELSE datastore_stat(st, IF Len(path) > 1 THEN <<Head(path)>> ELSE path, force)

datastore_path_stat(st, be, datastore_type, path, force) ==
    LET datastore_info == backend_datastore_get(st, be) IN
    IF datastore_info.error THEN Err(datastore_info.errno)
    ELSE IF datastore_info.datastore.type # datastore_type THEN Err(0)
    ELSE datastore_stat(st, path, force)

\* a variant that loads the inode with force
datastore_inode_getinode_forces(st, be, datastore_type, inode_uuid) ==
    LET datastore_info == backend_datastore_get(st, be) IN
    IF datastore_info.error THEN Err(datastore_info.errno)
    ELSE IF datastore_info.datastore.type # datastore_type THEN Err(0)
    ELSE load_inode(st, inode_uuid, TRUE)

datastore_inode_getinode(st, be, datastore_type, inode_uuid) ==
    LET datastore_info == backend_datastore_get(st, be) IN
    IF datastore_info.error THEN Err(datastore_info.errno)
    ELSE IF datastore_info.datastore.type # datastore_type THEN Err(0)
    ELSE datastore_getinode(st, inode_uuid)

\* a variant that makes the directory also when the name is taken
cli_datastore_mkdir_replaces_entry(st, be, path, dev) ==
    LET datastore_info == backend_datastore_get(st, be)
        res == datastore_mkdir(st, path, dev)
        p == resolve_parent(st, path, FALSE)
        u == st.next
        st1 == save_inode(alloc_uuid(st), st.ds.drivers, u,
                          create_inode(MUTABLE_DATUM_DIR_TYPE), dev)
        st2 == save_inode(st1, st.ds.drivers, p.uuid,
                          add_entry(p.inode, Last(path), u, MUTABLE_DATUM_DIR_TYPE), dev)
    IN  IF datastore_info.error THEN Ret(st, Err(datastore_info.errno))
        ELSE IF res.res.error /\ res.res.errno = EEXIST THEN Ret(st2, StatusTrue)
        ELSE res

\* a variant that hands back the error without its errno
cli_datastore_mkdir_drops_errno(st, be, path, dev) ==
    LET datastore_info == backend_datastore_get(st, be)
        res == datastore_mkdir(st, path, dev)
    IN  IF datastore_info.error THEN Ret(st, Err(datastore_info.errno))
        ELSE IF res.res.error THEN Ret(res.st, Err(0))
        ELSE res

\* a variant that makes the missing parent directory first
cli_datastore_mkdir_makes_parents(st, be, path, dev) ==
    LET datastore_info == backend_datastore_get(st, be)
        res == datastore_mkdir(st, path, dev)
        par == datastore_mkdir(st, Front(path), dev)
    IN  IF datastore_info.error THEN Ret(st, Err(datastore_info.errno))
        ELSE IF res.res.error /\ res.res.errno = ENOENT /\ Len(path) > 1 /\ ~par.res.error
        THEN datastore_mkdir(par.st, path, dev)
        ELSE res

cli_datastore_mkdir(st, be, path, dev) ==
    LET datastore_info == backend_datastore_get(st, be) IN
    IF datastore_info.error THEN Ret(st, Err(datastore_info.errno))
    ELSE datastore_mkdir(st, path, dev)

\* a variant that removes the directory with everything below it
cli_datastore_rmdir_removes_tree(st, be, path, force, dev, nodel) ==
    LET datastore_info == backend_datastore_get(st, be) IN
    IF datastore_info.error THEN Ret(st, Err(datastore_info.errno))
    ELSE datastore_rmtree(st, path, dev, nodel)

\* a variant that reports every failure as EPERM
cli_datastore_rmdir_reports_eperm(st, be, path, force, dev, nodel) ==
    LET datastore_info == backend_datastore_get(st, be)
        res == datastore_rmdir(st, path, force, dev, nodel)
    IN  IF datastore_info.error THEN Ret(st, Err(datastore_info.errno))
        ELSE IF res.res.error THEN Ret(res.st, Err(EPERM))
        ELSE res

cli_datastore_rmdir(st, be, path, force, dev, nodel) ==
    LET datastore_info == backend_datastore_get(st, be) IN
    IF datastore_info.error THEN Ret(st, Err(datastore_info.errno))
    ELSE datastore_rmdir(st, path, force, dev, nodel)

\* a variant that removes the entry and its inode and nothing below it
cli_datastore_rmtree_top_only(st, be, path, dev, nodel) ==
    LET datastore_info == backend_datastore_get(st, be)
        p == resolve_parent(st, path, FALSE)
    IN  IF datastore_info.error THEN Ret(st, Err(datastore_info.errno))
        ELSE IF path = <<>> THEN datastore_rmtree(st, path, dev, nodel)
        ELSE IF p.error THEN Ret(st, p)
        ELSE IF Last(path) \notin DOMAIN p.inode.children THEN Ret(st, Err(ENOENT))
        ELSE Ret(delete_inode(save_inode(st, st.ds.drivers, p.uuid,
                                         remove_entry(p.inode, Last(path)), dev),
                              p.inode.children[Last(path)].uuid, nodel), StatusTrue)

cli_datastore_rmtree(st, be, path, dev, nodel) ==
    LET datastore_info == backend_datastore_get(st, be) IN
    IF datastore_info.error THEN Ret(st, Err(datastore_info.errno))
    ELSE datastore_rmtree(st, path, dev, nodel)

\* a variant that hands back the inode at the path whatever its type
cli_datastore_getfile_reads_any_inode(st, be, path, force) ==
    datastore_path_stat(st, be, "datastore", path, force)

cli_datastore_getfile(st, be, path, force) ==
    datastore_file_get(st, be, "datastore", path, force)

cli_datastore_listdir(st, be, path, force) ==
    datastore_dir_list(st, be, "datastore", path, force)

cli_datastore_stat(st, be, path, force) ==
    datastore_path_stat(st, be, "datastore", path, force)

\* a variant that reports success without calling datastore_deletefile
cli_datastore_deletefile_skips_delete(st, be, path, force, dev, nodel) ==
    LET datastore_info == backend_datastore_get(st, be)
        res == datastore_deletefile(st, path, force, dev, nodel)
    IN  IF datastore_info.error THEN Ret(st, Err(EPERM))
        ELSE Ret(st, res.res)

cli_datastore_deletefile(st, be, path, force, dev, nodel) ==
    LET datastore_info == backend_datastore_get(st, be) IN
    IF datastore_info.error THEN Ret(st, Err(EPERM))
    ELSE datastore_deletefile(st, path, force, dev, nodel)

\* a variant that does not hand on its create option
cli_datastore_putfile_drops_create(st, be, path, data, create, force, force_data, dev) ==
    datastore_file_put(st, be, "datastore", path, data, FALSE, force_data, FALSE, dev)

\* a variant that reports the result of putfile and stores nothing
cli_datastore_putfile_stores_nothing(st, be, path, data, create, force, force_data, dev) ==
    Ret(st, datastore_file_put(st, be, "datastore", path, data, create, force_data,
                               FALSE, dev).res)

\* cli_datastore_putfile reads its force option and does not hand it on
cli_datastore_putfile(st, be, path, data, create, force, force_data, dev) ==
    datastore_file_put(st, be, "datastore", path, data, create, force_data, FALSE, dev)

\* datastore_file_put and cli_datastore_putfile when the version query of the
\* devices in down fails
datastore_file_put_down(st, be, datastore_type, path, data, create, force_data, force, dev, down) ==
    LET read == file_put_data(data, force_data)
        datastore_info == backend_datastore_get(st, be)
    IN  IF read.error THEN Ret(st, read)
        ELSE IF datastore_info.error THEN Ret(st, Err(datastore_info.errno))
        ELSE datastore_putfile_down(st, path, read.inode.data, create, FALSE, dev, down)

cli_datastore_putfile_down(st, be, path, data, create, force, force_data, dev, down) ==
    datastore_file_put_down(st, be, "datastore", path, data, create, force_data, FALSE, dev,
                            down)

\* cli_datastore_getinode calls datastore_inode_getinode with the keyword force,
\* which datastore_inode_getinode does not take: the call raises TypeError
cli_datastore_getinode(st, be, inode_uuid, force) == Raised

\* cli_collection_putitem calls datastore_file_put with create=True and with the
\* keywords app_domain, proxy, master_data_privkey and password, which
\* datastore_file_put does not take: the call raises TypeError and stores nothing
cli_collection_putitem(st, be, item_id, data, force_data, dev) == Ret(st, Raised)

\* The reads as calls: the store they leave, and what they return.  None of
\* them makes a call that writes.
get_datastore_by_type_call(st, be, datastore_type) ==
    Ret(st, get_datastore_by_type(st, be, datastore_type))

\* a variant that takes the file it has read out of the drivers
datastore_file_get_call_consumes(st, be, datastore_type, path, force) ==
    LET res == datastore_file_get(st, be, datastore_type, path, force) IN
    IF res.error THEN Ret(st, res)
    ELSE Ret(driver_delete(st, st.ds.drivers, res.uuid, {}), res)

datastore_file_get_call(st, be, datastore_type, path, force) ==
    Ret(st, datastore_file_get(st, be, datastore_type, path, force))

datastore_dir_list_call(st, be, datastore_type, path, force) ==
    Ret(st, datastore_dir_list(st, be, datastore_type, path, force))

datastore_path_stat_call(st, be, datastore_type, path, force) ==
    Ret(st, datastore_path_stat(st, be, datastore_type, path, force))

datastore_inode_getinode_call(st, be, datastore_type, inode_uuid) ==
    Ret(st, datastore_inode_getinode(st, be, datastore_type, inode_uuid))

(***************************************************************************)
(* State.                                                                  *)
(***************************************************************************)
VARIABLES
    ds,       \* the datastore record held by the backend, or NoDatastore
    blobs,    \* blobs[driver][uuid]: the envelope the driver serves, or NoInode
    tombs,    \* the tombstones written: <<uuid, device_id>>
    vers,     \* vers[device_id][uuid]: the device's last recorded version
    next,     \* the next unused uuid
    last,     \* history: the last call that succeeded, [op, path]
    written,  \* history: path -> the arguments of the last putfile that succeeded
              \* there, for the files not removed since
    gone,     \* history: path -> [op, uuid] of the deletefile or rmdir that
              \* succeeded there, until something is created on the path again
    forged,   \* <<driver, uuid>>: the envelope the driver serves for uuid was not
              \* signed with the owning key
    race,     \* race[device_id]: where the device is in a save it makes step by
              \* step: its version query, then its driver writes
    job,      \* the mkdir, putfile or rmtree that is run one driver call at a time
    default_devices,  \* the 'default_devices' field of the config file: a string,
              \* as the sequence of its device names and commas
    wallet,   \* the last run of get_wallet_with_backoff: what get_wallet did at
              \* each attempt, and what came of it
    registrar \* the last run of get_registrar_info: the backend state, and the
              \* queues returned

vars == <<ds, blobs, tombs, vers, next, forged, last, written, gone, race, job,
          default_devices, wallet, registrar>>

\* the state of the client outside the datastore
side == <<job, default_devices, wallet, registrar>>

store ==
    [ds |-> ds, blobs |-> blobs, tombs |-> tombs, vers |-> vers, next |-> next,
     forged |-> forged]

\* the backend's error for a missing record may or may not carry an errno
BackendErrnos == {0, ENOENT}

\* the errno matters only when the record is missing
backend_errnos == IF ds.exists THEN {ENOENT} ELSE BackendErrnos

\* the drivers of the datastore whose delete may be a no-op
lazy_drivers == LazyDrivers \cap Range(ds.drivers)

InBounds(st) ==
    /\ st.next <= MaxUuid + 1
    /\ \A d \in Devices, u \in Uuids : st.vers[d][u] <= MaxVersion

IsPrefix(q, p) == Len(q) <= Len(p) /\ SubSeq(p, 1, Len(q)) = q

Restrict(f, S) == [x \in DOMAIN f \cap S |-> f[x]]

\* no operation is run step by step
NoJob ==
    [pc |-> "idle", op |-> "", path |-> <<>>, uuid |-> 0, done |-> {}, failed |-> 0,
     errno |-> 0, faults |-> 0, entries |-> NoChildren, under |-> {}]

\* get_wallet_with_backoff has not been run
NoWallet ==
    [pc |-> "idle", outcomes |-> <<>>, i |-> 0, attempts |-> 0, slept |-> 0,
     wallet_keys |-> "None"]

\* get_registrar_info has not been run
NoRegistrar == [state |-> <<>>, ret |-> [q \in {} |-> <<>>]]

\* no device is in a save
NoRace ==
    [d \in Devices |-> [pc |-> "idle", uuid |-> 0, version |-> 0, overlap |-> FALSE,
                        told |-> 0]]

Init ==
    /\ ds = NoDatastore
    /\ blobs = [d \in DriverNames |-> [u \in Uuids |-> NoInode]]
    /\ tombs = {}
    /\ vers = [d \in Devices |-> [u \in Uuids |-> 0]]
    /\ next = 1
    /\ forged = {}
    /\ last = [op |-> "", path |-> <<>>]
    /\ written = [p \in {} |-> 0]
    /\ gone = [p \in {} |-> 0]
    /\ race = NoRace
    /\ job = NoJob
    /\ default_devices = <<LocalDevice>>
    /\ wallet = NoWallet
    /\ registrar = NoRegistrar

\* the call op(path) returned r; a failed call is not recorded in the history
Record(op, path, args, r) ==
    /\ ds' = r.st.ds
    /\ blobs' = r.st.blobs
    /\ tombs' = r.st.tombs
    /\ vers' = r.st.vers
    /\ next' = r.st.next
    /\ forged' = r.st.forged
    /\ last' = IF r.res.error THEN last ELSE [op |-> op, path |-> path]
    /\ written' =
        IF r.res.error THEN written
        ELSE IF op = "putfile"
        THEN [p \in DOMAIN written \cup {path} |-> IF p = path THEN args ELSE written[p]]
        ELSE IF op \in {"deletefile", "rmtree"}
        THEN Restrict(written, {p \in DOMAIN written : ~IsPrefix(path, p)})
        ELSE IF op = "delete_datastore" THEN Restrict(written, {})
        ELSE written
    /\ gone' =
        IF r.res.error THEN gone
        ELSE IF op \in {"deletefile", "rmdir"}
        THEN [p \in DOMAIN gone \cup {path} |-> IF p = path THEN args ELSE gone[p]]
        ELSE IF op = "mkdir"
        THEN Restrict(gone, DOMAIN gone \ {path})
        ELSE IF op = "putfile"
        THEN Restrict(gone, {p \in DOMAIN gone : ~IsPrefix(path, p)})
        ELSE IF op = "delete_datastore" THEN Restrict(gone, {})
        ELSE gone
    /\ race' = race
    /\ UNCHANGED side

Do(op, path, args, r) == InBounds(r.st) /\ Record(op, path, args, r)

CreateDatastore ==
    \E be \in backend_errnos, t \in DatastoreTypes, drivers \in DriverLists :
        Do("create_datastore", <<>>, <<>>,
           create_datastore_by_type(store, be, t, drivers, LocalDevice))

DeleteDatastore ==
    \E be \in backend_errnos, t \in DatastoreTypes, force \in BOOLEAN,
       nodel \in SUBSET lazy_drivers :
        Do("delete_datastore", <<>>, <<>>,
           delete_datastore_by_type(store, be, t, force, LocalDevice, nodel))

Mkdir ==
    \E be \in backend_errnos, path \in LeafPaths :
        Do("mkdir", path, <<>>, cli_datastore_mkdir(store, be, path, LocalDevice))

Putfile ==
    \E be \in backend_errnos, path \in LeafPaths, data \in Data,
       create \in BOOLEAN, force \in BOOLEAN, force_data \in BOOLEAN :
        Do("putfile", path, [data |-> data, force_data |-> force_data],
           cli_datastore_putfile(store, be, path, data, create, force, force_data,
                                 LocalDevice))

Deletefile ==
    \E be \in backend_errnos, path \in LeafPaths, force \in BOOLEAN,
       nodel \in SUBSET lazy_drivers :
        Do("deletefile", path,
           [op |-> "deletefile", uuid |-> datastore_stat(store, path, force).uuid],
           cli_datastore_deletefile(store, be, path, force, LocalDevice, nodel))

Rmdir ==
    \E be \in backend_errnos, path \in LeafPaths, force \in BOOLEAN,
       nodel \in SUBSET lazy_drivers :
        Do("rmdir", path,
           [op |-> "rmdir", uuid |-> datastore_stat(store, path, force).uuid],
           cli_datastore_rmdir(store, be, path, force, LocalDevice, nodel))

Rmtree ==
    \E be \in backend_errnos, path \in Paths, nodel \in SUBSET lazy_drivers :
        Do("rmtree", path, <<>>, cli_datastore_rmtree(store, be, path, LocalDevice, nodel))

Next ==
    \/ CreateDatastore
    \/ DeleteDatastore
    \/ Mkdir
    \/ Putfile
    \/ Deletefile
    \/ Rmdir
    \/ Rmtree

Spec == Init /\ [][Next]_vars

(***************************************************************************)
(* The directory tree alone: one datastore of type "datastore", files with *)
(* one payload, and the four calls that insert and remove names.  Its      *)
(* bounds leave room for a directory with two entries of which one is      *)
(* removed.                                                                *)
(***************************************************************************)
TreeInBounds(st) ==
    /\ st.next <= MaxTreeUuid + 1
    /\ \A d \in Devices, u \in Uuids : st.vers[d][u] <= MaxTreeVersion

TreeDo(op, path, args, r) == TreeInBounds(r.st) /\ Record(op, path, args, r)

TreeCreate ==
    \E drivers \in DriverLists :
        TreeDo("create_datastore", <<>>, <<>>,
               create_datastore_by_type(store, ENOENT, "datastore", drivers, LocalDevice))

TreeMkdir ==
    \E path \in LeafPaths :
        TreeDo("mkdir", path, <<>>, cli_datastore_mkdir(store, ENOENT, path, LocalDevice))

TreePutfile ==
    \E path \in LeafPaths, create \in BOOLEAN :
        TreeDo("putfile", path, [data |-> <<"x">>, force_data |-> TRUE],
               cli_datastore_putfile(store, ENOENT, path, <<"x">>, create, FALSE, TRUE,
                                     LocalDevice))

TreeDeletefile ==
    \E path \in LeafPaths, force \in BOOLEAN, nodel \in SUBSET lazy_drivers :
        TreeDo("deletefile", path,
               [op |-> "deletefile", uuid |-> datastore_stat(store, path, force).uuid],
               cli_datastore_deletefile(store, ENOENT, path, force, LocalDevice, nodel))

TreeRmdir ==
    \E path \in LeafPaths, force \in BOOLEAN, nodel \in SUBSET lazy_drivers :
        TreeDo("rmdir", path,
               [op |-> "rmdir", uuid |-> datastore_stat(store, path, force).uuid],
               cli_datastore_rmdir(store, ENOENT, path, force, LocalDevice, nodel))

TreeNext ==
    \/ TreeCreate
    \/ TreeMkdir
    \/ TreePutfile
    \/ TreeDeletefile
    \/ TreeRmdir

TreeSpec == Init /\ [][TreeNext]_vars

(***************************************************************************)
(* Lagging storage: one datastore of type "datastore" kept on two drivers, *)
(* of which one may miss the writes of a call and go on serving the        *)
(* envelopes it had.  A read that gets an envelope older than the version  *)
(* known for the inode is stale.                                           *)
(***************************************************************************)
Laggers == {"lazy", "disk"}

\* the result r of a call whose writes the drivers in lag did not take
Lagged(r, lag) ==
    [r EXCEPT !.st.blobs = [d \in DriverNames |->
        IF d \in lag THEN blobs[d] ELSE r.st.blobs[d]]]

StaleCreate ==
    Do("create_datastore", <<>>, <<>>,
       create_datastore_by_type(store, ENOENT, "datastore", <<"lazy", "disk">>, LocalDevice))

StaleMkdir ==
    \E path \in LeafPaths, lagger \in Laggers, lags \in BOOLEAN :
        Do("mkdir", path, <<>>,
           Lagged(cli_datastore_mkdir(store, ENOENT, path, LocalDevice),
                  IF lags THEN {lagger} ELSE {}))

StalePutfile ==
    \E path \in LeafPaths, create \in BOOLEAN, force \in BOOLEAN,
       lagger \in Laggers, lags \in BOOLEAN :
        Do("putfile", path, [data |-> <<"x">>, force_data |-> TRUE],
           Lagged(cli_datastore_putfile(store, ENOENT, path, <<"x">>, create, force, TRUE,
                                        LocalDevice),
                  IF lags THEN {lagger} ELSE {}))

StaleDeletefile ==
    \E path \in LeafPaths, force \in BOOLEAN, nodel \in SUBSET lazy_drivers,
       lagger \in Laggers, lags \in BOOLEAN :
        Do("deletefile", path,
           [op |-> "deletefile", uuid |-> datastore_stat(store, path, force).uuid],
           Lagged(cli_datastore_deletefile(store, ENOENT, path, force, LocalDevice, nodel),
                  IF lags THEN {lagger} ELSE {}))

StaleDeleteDatastore ==
    \E force \in BOOLEAN :
        Do("delete_datastore", <<>>, <<>>,
           cli_delete_datastore(store, ENOENT, force, LocalDevice, {}))

StaleNext ==
    \/ StaleCreate
    \/ StaleMkdir
    \/ StalePutfile
    \/ StaleDeletefile
    \/ StaleDeleteDatastore

StaleSpec == Init /\ [][StaleNext]_vars

(***************************************************************************)
(* Concurrent writers: two devices overwrite the same file, each with the   *)
(* steps of save_inode taken one at a time: the version query, then the    *)
(* write to the drivers and the record of the version written.  There is   *)
(* no lock between the steps.                                              *)
(***************************************************************************)
RacePayload(dev) == IF dev = LocalDevice THEN <<"x">> ELSE <<"y">>

\* the second half of save_inode: the envelope with the version the query
\* gave goes to every driver, and the device records that version
write_inode(st, drivers, u, inode, dev, v) ==
    LET env == [inode EXCEPT !.version = v]
        st1 == driver_put(st, drivers, u, env)
    IN  [st1 EXCEPT !.vers = [d \in Devices |-> [x \in Uuids |->
            IF d = dev /\ x = u THEN v ELSE st.vers[d][x]]]]

RaceStore(st) ==
    /\ ds' = st.ds
    /\ blobs' = st.blobs
    /\ tombs' = st.tombs
    /\ vers' = st.vers
    /\ next' = st.next
    /\ forged' = st.forged
    /\ UNCHANGED <<last, written, gone>>

RaceCreate ==
    Do("create_datastore", <<>>, <<>>,
       create_datastore_by_type(store, ENOENT, "datastore", <<"lazy", "disk">>, LocalDevice))

\* the file the devices will overwrite is made by one call
RacePutfile ==
    \E path \in {<<n>> : n \in Names} :
        Do("putfile", path, [data |-> <<"x">>, force_data |-> TRUE],
           cli_datastore_putfile(store, ENOENT, path, <<"x">>, TRUE, FALSE, TRUE,
                                 LocalDevice))

\* putfile on an existing file, up to the version query of its save_inode
RaceQuery(dev) ==
    \E path \in {<<n>> : n \in Names} :
        LET f == datastore_getfile(store, path, FALSE)
            v == next_version(store, f.uuid, Devices)
            meets(d) == d # dev /\ race[d].pc = "queried" /\ race[d].uuid = f.uuid
        IN  /\ race[dev].pc = "idle"
            /\ ds.exists
            /\ ~f.error
            /\ v <= MaxRaceVersion
            /\ race' = [d \in Devices |->
                   IF d = dev
                   THEN [pc |-> "queried", uuid |-> f.uuid, version |-> v,
                         overlap |-> \E o \in Devices : meets(o), told |-> 0]
                   ELSE IF meets(d) THEN [race[d] EXCEPT !.overlap = TRUE]
                   ELSE race[d]]
            /\ UNCHANGED <<ds, blobs, tombs, vers, next, forged, last, written, gone>>
            /\ UNCHANGED side

\* the rest of that save_inode: the driver writes; the save reports success
RaceWrite(dev) ==
    /\ race[dev].pc = "queried"
    /\ RaceStore(write_inode(store, ds.drivers, race[dev].uuid,
                             [create_inode(MUTABLE_DATUM_FILE_TYPE) EXCEPT
                                 !.data = RacePayload(dev)],
                             dev, race[dev].version))
    /\ race' = [race EXCEPT ![dev].pc = "done", ![dev].told = 0]
    /\ UNCHANGED side

\* the device is ready for its next putfile
RaceAgain(dev) ==
    /\ race[dev].pc = "done"
    /\ race' = [race EXCEPT ![dev] = NoRace[dev]]
    /\ UNCHANGED <<ds, blobs, tombs, vers, next, forged, last, written, gone>>
    /\ UNCHANGED side

RaceNext ==
    \/ RaceCreate
    \/ RacePutfile
    \/ \E dev \in Devices : RaceQuery(dev)
    \/ \E dev \in Devices : RaceWrite(dev)
    \/ \E dev \in Devices : RaceAgain(dev)

RaceSpec == Init /\ [][RaceNext]_vars

(***************************************************************************)
(* One driver call at a time.  mkdir, putfile of a new file and rmtree are *)
(* sequences of blocking driver calls with nothing that spans them: the    *)
(* client can crash between two calls of an operation, and a driver call   *)
(* can fail.  job is the operation that is under way: the call it is at,   *)
(* what it has done, and what it reported when it failed.                  *)
(***************************************************************************)
MaxFaults == 1
MaxStepUuid == 4
MaxStepVersion == 3

\* the paths the jobs are run on: one directory and what it holds
StepPaths == {<<>>, <<"a">>} \cup {<<"a", n>> : n \in Names}

StepInBounds(st) ==
    /\ st.next <= MaxStepUuid + 1
    /\ \A d \in Devices, u \in Uuids : st.vers[d][u] <= MaxStepVersion

\* the inodes at and below u, by the envelopes the drivers serve
RECURSIVE Under(_, _, _)
Under(st, u, depth) ==
    LET env == driver_get(st, u) IN
    {u} \cup (IF depth = 0 \/ env.type # MUTABLE_DATUM_DIR_TYPE THEN {}
              ELSE UNION {Under(st, env.children[n].uuid, depth - 1) :
                             n \in DOMAIN env.children})

\* a variant that saves the parent directory with the entry first
create_child_parent_first(st, path, inode, dev) ==
    LET p == resolve_parent(st, path, FALSE) IN
    IF p.error THEN Ret(st, p)
    ELSE IF Last(path) \in DOMAIN p.inode.children THEN Ret(st, Err(EEXIST))
    ELSE Ret(save_inode(alloc_uuid(st), st.ds.drivers, p.uuid,
                        add_entry(p.inode, Last(path), st.next, inode.type), dev),
             Ok(st.next, inode))

\* the first driver write of mkdir and of putfile of a new file: the child inode
create_child(st, path, inode, dev) ==
    LET p == resolve_parent(st, path, FALSE) IN
    IF p.error THEN Ret(st, p)
    ELSE IF Last(path) \in DOMAIN p.inode.children THEN Ret(st, Err(EEXIST))
    ELSE Ret(save_inode(alloc_uuid(st), st.ds.drivers, st.next, inode, dev),
             Ok(st.next, inode))

\* their second driver write: the parent directory with the entry of the child
insert_entry(st, path, u, inode_type, dev) ==
    LET p == resolve_parent(st, path, FALSE) IN
    Ret(save_inode(st, st.ds.drivers, p.uuid,
                   add_entry(p.inode, Last(path), u, inode_type), dev), StatusTrue)

\* the inode a job creates
job_inode(op) ==
    IF op = "mkdir" THEN create_inode(MUTABLE_DATUM_DIR_TYPE)
    ELSE [create_inode(MUTABLE_DATUM_FILE_TYPE) EXCEPT !.data = <<"x">>]

\* a variant that tombstones the top inode before what is below it
rmtree_next_top_first(st, u, done) ==
    LET r == load_inode(st, u, FALSE) IN
    IF r.error THEN [kind |-> "fail", uuid |-> u, errno |-> r.errno]
    ELSE [kind |-> "victim", uuid |-> u, errno |-> 0]

\* the inode rmtree tombstones next below u, children first; done are the
\* inodes this rmtree has tombstoned.  An inode that does not load fails it.
RECURSIVE rmtree_next(_, _, _)
rmtree_next(st, u, done) ==
    LET r == load_inode(st, u, FALSE)
        todo == {n \in DOMAIN r.inode.children : r.inode.children[n].uuid \notin done}
    IN  IF r.error THEN [kind |-> "fail", uuid |-> u, errno |-> r.errno]
        ELSE IF todo = {} THEN [kind |-> "victim", uuid |-> u, errno |-> 0]
        ELSE rmtree_next(st, r.inode.children[CHOOSE n \in todo : TRUE].uuid, done)

\* the next driver call of the job j, when the drivers answer.  An inode that
\* does not load ends the job, which reports the inode it failed at and the
\* inodes it had tombstoned.
job_call(st, j, dev, nodel) ==
    LET p == resolve_parent(st, j.path, FALSE)
        name == Last(j.path)
        top == resolve(st, <<>>, FALSE)
        nx == rmtree_next(st, j.uuid, j.done)
        c == create_child(st, j.path, job_inode(j.op), dev)
        fails(u, e) == [st |-> st,
                        job |-> [j EXCEPT !.pc = "failed", !.failed = u, !.errno = e]]
    IN  IF j.op \in {"mkdir", "putfile"}
        THEN IF j.pc = "start"
             THEN IF c.res.error THEN fails(0, c.res.errno)
                  ELSE [st |-> c.st,
                        job |-> [j EXCEPT !.pc = "child_saved", !.uuid = c.res.uuid,
                                          !.entries = p.inode.children]]
             ELSE [st |-> insert_entry(st, j.path, j.uuid, job_inode(j.op).type, dev).st,
                   job |-> [j EXCEPT !.pc = "done"]]
        ELSE IF j.pc = "start"
        THEN IF j.path = <<>>
             THEN IF top.error THEN fails(0, top.errno)
                  ELSE [st |-> st,
                        job |-> [j EXCEPT !.pc = "tombstoning", !.uuid = top.uuid,
                                          !.entries = top.inode.children,
                                          !.under = Under(st, top.uuid, MaxDepth)
                                                    \ {top.uuid}]]
             ELSE IF p.error THEN fails(0, p.errno)
             ELSE IF name \notin DOMAIN p.inode.children THEN fails(0, ENOENT)
             ELSE [st |-> st,
                   job |-> [j EXCEPT !.pc = "tombstoning",
                                     !.uuid = p.inode.children[name].uuid,
                                     !.entries = p.inode.children,
                                     !.under = Under(st, p.inode.children[name].uuid,
                                                     MaxDepth)]]
        ELSE IF j.pc = "tombstoning"
        THEN IF nx.kind = "fail" THEN fails(nx.uuid, nx.errno)
             ELSE IF nx.uuid # j.uuid
             THEN [st |-> delete_inode(st, nx.uuid, nodel),
                   job |-> [j EXCEPT !.done = @ \cup {nx.uuid}]]
             ELSE IF j.path # <<>>
             THEN [st |-> delete_inode(st, nx.uuid, nodel),
                   job |-> [j EXCEPT !.pc = "unlink", !.done = @ \cup {nx.uuid}]]
             ELSE IF DOMAIN top.inode.children = {}
             THEN [st |-> st, job |-> [j EXCEPT !.pc = "done"]]
             ELSE [st |-> save_inode(st, st.ds.drivers, top.uuid,
                                     [top.inode EXCEPT !.children = NoChildren], dev),
                   job |-> [j EXCEPT !.pc = "done"]]
        ELSE [st |-> save_inode(st, st.ds.drivers, p.uuid,
                                remove_entry(p.inode, name), dev),
              job |-> [j EXCEPT !.pc = "done"]]

\* the inode that the next driver call of the job is for
job_target(st, j) ==
    IF j.op = "rmtree" /\ j.pc = "tombstoning" THEN rmtree_next(st, j.uuid, j.done).uuid
    ELSE j.uuid

\* a variant that issues the failed driver call a second time
job_step_retries(st, j, dev, nodel, fault) ==
    LET r == job_call(st, j, dev, nodel) IN
    [st |-> r.st, job |-> [r.job EXCEPT !.faults = IF fault THEN @ + 1 ELSE @]]

\* the next driver call of the job j; fault says that the drivers fail it.  A
\* call that fails ends the job with the error: nothing is written, and the
\* job reports the inode it failed at and the inodes it had tombstoned.
job_step(st, j, dev, nodel, fault) ==
    IF fault
    THEN [st |-> st,
          job |-> [j EXCEPT !.pc = "failed", !.failed = job_target(st, j),
                            !.errno = EPERM, !.faults = @ + 1]]
    ELSE job_call(st, j, dev, nodel)

\* the job run to its end with no driver fault
RECURSIVE job_run(_, _, _, _)
job_run(st, j, dev, nodel) ==
    IF j.pc \in {"done", "failed"} THEN [st |-> st, job |-> j]
    ELSE LET one == job_step(st, j, dev, nodel, FALSE)
         IN  job_run(one.st, one.job, dev, nodel)

\* the job that a call of op on path starts
job_start(op, path, faults) ==
    [NoJob EXCEPT !.pc = "start", !.op = op, !.path = path, !.faults = faults]

JobRunning == job.pc \in {"start", "child_saved", "tombstoning", "unlink"}

StepStore(st) ==
    /\ StepInBounds(st)
    /\ ds' = st.ds
    /\ blobs' = st.blobs
    /\ tombs' = st.tombs
    /\ vers' = st.vers
    /\ next' = st.next
    /\ forged' = st.forged
    /\ UNCHANGED <<last, written, gone, race, default_devices, wallet, registrar>>

StepCreate ==
    /\ ~JobRunning
    /\ Do("create_datastore", <<>>, <<>>,
           create_datastore_by_type(store, ENOENT, "datastore", <<"lazy", "disk">>,
                                    LocalDevice))

\* a command is called: cli_datastore_mkdir, cli_datastore_putfile on a name that
\* is not there, or cli_datastore_rmtree
StepBegin ==
    \E op \in {"mkdir", "putfile", "rmtree"}, path \in StepPaths :
        /\ ~JobRunning
        /\ ~backend_datastore_get(store, ENOENT).error
        /\ op = "rmtree" \/ path # <<>>
        /\ job' = job_start(op, path, job.faults)
        /\ StepStore(store)

\* the driver call the job is at
StepCall ==
    \E nodel \in SUBSET lazy_drivers, fault \in BOOLEAN :
        LET r == job_step(store, job, LocalDevice, nodel, fault) IN
        /\ JobRunning
        /\ r.job.faults <= MaxFaults
        /\ job' = r.job
        /\ StepStore(r.st)

\* the client dies between two driver calls of the job
StepCrash ==
    /\ JobRunning
    /\ job.pc # "start"
    /\ job' = [job EXCEPT !.pc = "crashed"]
    /\ StepStore(store)

StepNext ==
    \/ StepCreate
    \/ StepBegin
    \/ StepCall
    \/ StepCrash

StepSpec == Init /\ [][StepNext]_vars

(***************************************************************************)
(* Untrusted storage: a driver may serve, under the key of an inode, an    *)
(* envelope that the owning key did not sign.                              *)
(***************************************************************************)
\* the envelope put in the place of env: the same kind of inode, other content
forged_envelope(env, v) ==
    [env EXCEPT !.version = v,
                !.data = IF env.type = MUTABLE_DATUM_FILE_TYPE THEN <<"z">> ELSE @,
                !.children = IF env.type = MUTABLE_DATUM_DIR_TYPE THEN NoChildren ELSE @]

ForgeCreate ==
    \E drivers \in DriverLists :
        Do("create_datastore", <<>>, <<>>,
           create_datastore_by_type(store, ENOENT, "datastore", drivers, LocalDevice))

ForgeMkdir ==
    \E path \in LeafPaths :
        Do("mkdir", path, <<>>, cli_datastore_mkdir(store, ENOENT, path, LocalDevice))

ForgePutfile ==
    \E path \in LeafPaths, create \in BOOLEAN :
        Do("putfile", path, [data |-> <<"x">>, force_data |-> TRUE],
           cli_datastore_putfile(store, ENOENT, path, <<"x">>, create, FALSE, TRUE,
                                 LocalDevice))

\* the driver d replaces the envelope it serves for u
Forge ==
    \E d \in DriverNames, u \in Uuids, bump \in {0, 1} :
        /\ ds.exists
        /\ d \in Range(ds.drivers)
        /\ blobs[d][u].type # "none"
        /\ <<d, u>> \notin forged
        /\ blobs[d][u].version + bump <= MaxVersion
        /\ blobs' = [blobs EXCEPT ![d][u] = forged_envelope(@, @.version + bump)]
        /\ forged' = forged \cup {<<d, u>>}
        /\ UNCHANGED <<ds, tombs, vers, next, last, written, gone, race>>
        /\ UNCHANGED side

ForgeNext ==
    \/ ForgeCreate
    \/ ForgeMkdir
    \/ ForgePutfile
    \/ Forge

ForgeSpec == Init /\ [][ForgeNext]_vars

(***************************************************************************)
(* get_wallet_with_backoff.  get_wallet is the call to the API daemon: at  *)
(* each attempt it returns the wallet keys or an error dict, or raises an  *)
(* IOError with errno ECONNREFUSED or with another errno.                  *)
(***************************************************************************)
Outcomes == {"wallet", "error", "ECONNREFUSED", "EIO"}

\* for i in range(3)
range3 == <<0, 1, 2>>

\* what get_wallet does at each of its calls
OutcomeLists == [DOMAIN range3 -> Outcomes]

\* wallet_keys = None; i = 0
get_wallet_with_backoff_call(outcomes) ==
    [NoWallet EXCEPT !.pc = "for", !.outcomes = outcomes, !.i = 0,
                     !.wallet_keys = "None"]

\* one turn of the loop, that of range3[n]: the try and its except clause
get_wallet_with_backoff_try(w, n) ==
    LET i == range3[n]
        out == w.outcomes[n]
        a == [w EXCEPT !.i = i, !.attempts = @ + 1]
    IN  IF out \in {"wallet", "error"}
        THEN [a EXCEPT !.pc = "returned", !.wallet_keys = out]
        ELSE IF out = "ECONNREFUSED"
        THEN [a EXCEPT !.pc = IF n < Len(range3) THEN "for" ELSE "after",
                       !.slept = @ + i + 1]
        ELSE [a EXCEPT !.pc = "raised"]

\* after the loop: if i == 3, the error dict; then return wallet_keys
get_wallet_with_backoff_return(w) ==
    [w EXCEPT !.pc = "returned",
              !.wallet_keys = IF w.i = 3 THEN "error" ELSE w.wallet_keys]

WalletCall ==
    \E outcomes \in OutcomeLists :
        /\ wallet.pc \in {"idle", "returned", "raised"}
        /\ wallet' = get_wallet_with_backoff_call(outcomes)
        /\ UNCHANGED <<ds, blobs, tombs, vers, next, forged, last, written, gone, race,
                       job, default_devices, registrar>>

WalletTry ==
    /\ wallet.pc = "for"
    /\ wallet' = get_wallet_with_backoff_try(wallet, wallet.attempts + 1)
    /\ UNCHANGED <<ds, blobs, tombs, vers, next, forged, last, written, gone, race,
                   job, default_devices, registrar>>

WalletReturn ==
    /\ wallet.pc = "after"
    /\ wallet' = get_wallet_with_backoff_return(wallet)
    /\ UNCHANGED <<ds, blobs, tombs, vers, next, forged, last, written, gone, race,
                   job, default_devices, registrar>>

WalletNext ==
    \/ WalletCall
    \/ WalletTry
    \/ WalletReturn

WalletSpec == Init /\ [][WalletNext]_vars

(***************************************************************************)
(* The device list of the config file.  The field 'default_devices' is a   *)
(* string: the device IDs joined with ','.  A string is modelled as a      *)
(* sequence whose elements are ',' and comma-free pieces of text.          *)
(***************************************************************************)
MaxFieldLen == 7

\* the device_id arguments of the commands: any string
DeviceIdArgs ==
    {<<d>> : d \in Devices} \cup {<<"d3">>} \cup {<<"d2", ",", d>> : d \in {"d2", "d3"}}

\* ','.join(l)
RECURSIVE join(_)
join(l) ==
    IF l = <<>> THEN <<>>
    ELSE IF Len(l) = 1 THEN l[1]
    ELSE l[1] \o <<",">> \o join(Tail(l))

\* str.split(','): the pieces between the commas; one empty piece for ''
RECURSIVE split(_)
split(str) ==
    LET commas == {i \in DOMAIN str : str[i] = ","} IN
    IF commas = {} THEN <<str>>
    ELSE <<SubSeq(str, 1, Min(commas) - 1)>>
         \o split(SubSeq(str, Min(commas) + 1, Len(str)))

\* config.get_all_device_ids: the field, split at the commas
get_all_device_ids_of(field) == split(field)

\* list(set(l)): the elements of l once each, in some order
list_set(l) ==
    {o \in UNION {[1..n -> Range(l)] : n \in 0..Len(l)} :
        /\ Range(o) = Range(l)
        /\ \A i, j \in DOMAIN o : o[i] = o[j] => i = j}

\* list.remove(x): l without the first x
list_remove(l, x) ==
    LET i == Min({k \in DOMAIN l : l[k] = x})
    IN  SubSeq(l, 1, i - 1) \o SubSeq(l, i + 1, Len(l))

\* cli_add_device_id: the fields it may write; it returns {'status': True}
cli_add_device_id(field, device_id) ==
    LET device_ids == get_all_device_ids_of(field)
    IN  {join(l) : l \in list_set(device_ids \o <<device_id>>)}

\* cli_remove_device_id: the field it leaves; it returns {'status': True}
cli_remove_device_id(field, device_id) ==
    LET device_ids == get_all_device_ids_of(field) IN
    IF device_id \notin Range(device_ids) THEN field
    ELSE join(list_remove(device_ids, device_id))

\* the call is recorded in last, with the device ID in the place of the path
DeviceStore(field, op, device_id) ==
    /\ Len(field) <= MaxFieldLen
    /\ default_devices' = field
    /\ last' = [op |-> op, path |-> device_id]
    /\ UNCHANGED <<ds, blobs, tombs, vers, next, forged, written, gone, race, job,
                   wallet, registrar>>

AddDeviceId ==
    \E device_id \in DeviceIdArgs :
        \E field \in cli_add_device_id(default_devices, device_id) :
            DeviceStore(field, "add_device_id", device_id)

RemoveDeviceId ==
    \E device_id \in DeviceIdArgs :
        DeviceStore(cli_remove_device_id(default_devices, device_id),
                    "remove_device_id", device_id)

DeviceNext ==
    \/ AddDeviceId
    \/ RemoveDeviceId

DeviceSpec == Init /\ [][DeviceNext]_vars

(***************************************************************************)
(* get_registrar_info.  rpc.backend_state() is the list of the entries of  *)
(* the registrar's queues, each with its type, its name (fqu) and its      *)
(* transaction.                                                            *)
(***************************************************************************)
MaxBackendState == 3

\* queues, when the caller names none
queues == {"preorder", "register", "update", "transfer", "renew", "revoke"}

\* the entry types the backend may hand out; "import" is in no queue
EntryTypes == {"preorder", "register", "update", "import"}

BackendEntries == [type : EntryTypes, fqu : Names, tx_hash : {"t1", "t2"}]

BackendStates == UNION {[1..n -> BackendEntries] : n \in 0..MaxBackendState}

\* the confirmations of a transaction; None counts as 0
get_tx_confirmations(tx_hash) == IF tx_hash = "t1" THEN 1 ELSE 0

format_queue_entry(entry) ==
    [name |-> entry.fqu, confirmations |-> get_tx_confirmations(entry.tx_hash),
     tx_hash |-> entry.tx_hash]

\* the inner loop of remove_dups from the list position i on: the list is
\* changed while it is iterated, and the iterator goes on at position i + 1
RECURSIVE remove_dups_of(_, _, _)
remove_dups_of(preorder_queue, i, name) ==
    IF i > Len(preorder_queue) THEN preorder_queue
    ELSE IF preorder_queue[i].name = name
    THEN remove_dups_of(list_remove(preorder_queue, preorder_queue[i]), i + 1, name)
    ELSE remove_dups_of(preorder_queue, i + 1, name)

\* remove_dups: the preorder queue it leaves
RECURSIVE remove_dups(_, _)
remove_dups(preorder_queue, register_queue) ==
    IF register_queue = <<>> THEN preorder_queue
    ELSE remove_dups(remove_dups_of(preorder_queue, 1, Head(register_queue).name),
                     Tail(register_queue))

\* the entries of one type, formatted, in the order of the backend state
RECURSIVE extract(_, _)
extract(current_state, queue_name) ==
    IF current_state = <<>> THEN <<>>
    ELSE (IF Head(current_state).type = queue_name
          THEN <<format_queue_entry(Head(current_state))>> ELSE <<>>)
         \o extract(Tail(current_state), queue_name)

\* cli_get_registrar_info with the daemon running: the queues that are not empty
cli_get_registrar_info(current_state) ==
    LET queue_types == [q \in queues |->
            IF q = "preorder"
            THEN remove_dups(extract(current_state, "preorder"),
                             extract(current_state, "register"))
            ELSE extract(current_state, q)]
    IN  [q \in {x \in queues : queue_types[x] # <<>>} |-> queue_types[q]]

GetRegistrarInfo ==
    \E current_state \in BackendStates :
        /\ registrar = NoRegistrar
        /\ registrar' = [state |-> current_state,
                         ret |-> cli_get_registrar_info(current_state)]
        /\ UNCHANGED <<ds, blobs, tombs, vers, next, forged, last, written, gone, race,
                       job, default_devices, wallet>>

RegistrarNext == GetRegistrarInfo

RegistrarSpec == Init /\ [][RegistrarNext]_vars

(***************************************************************************)
(* Properties.  They are stated for a datastore record of type "datastore", *)
(* the type the datastore_* commands ask for; the reads below are the      *)
(* commands a client runs on the current state, without force.             *)
(***************************************************************************)
IsDatastore(st) == st.ds.exists /\ st.ds.type = "datastore"
getfile(st, path) == cli_datastore_getfile(st, ENOENT, path, FALSE)
stat(st, path) == cli_datastore_stat(st, ENOENT, path, FALSE)
listdir(st, path) == cli_datastore_listdir(st, ENOENT, path, FALSE)
getinode(st, u) == datastore_inode_getinode(st, ENOENT, "datastore", u)
mkdir(st, path) == cli_datastore_mkdir(st, ENOENT, path, LocalDevice)

\* a payload that putfile takes for the name of a local file
NamesLocalFile(data) == is_valid_path(data) /\ data \in DOMAIN LocalFiles

\* C1 as stated: for every path P in written (a putfile(P, B) succeeded, creating
\* or overwriting, and nothing has removed P since), getfile(P) returns exactly
\* the argument B of that putfile.
C1_GetfileReturnsArgument ==
    \A P \in DOMAIN written : IsDatastore(store) =>
        LET r == getfile(store, P) IN ~r.error /\ r.inode.data = written[P].data

\* C1 amended: for every path P in written, getfile(P) succeeds and returns what
\* the last successful putfile(P, B) stored: B itself when force_data was set or B
\* is not the printable name of an existing local file, and the contents of the
\* local file named B otherwise.  The latest successful putfile wins.
C1_GetfileReturnsStored ==
    \A P \in DOMAIN written : IsDatastore(store) =>
        LET r == getfile(store, P)
            B == written[P].data
        IN  /\ ~r.error
            /\ r.inode.type = MUTABLE_DATUM_FILE_TYPE
            /\ r.inode.data = IF NamesLocalFile(B) /\ ~written[P].force_data
                              THEN LocalFiles[B] ELSE B

\* an overwritten file, read after a later call on another path; its payload,
\* stored with force_data, is the name of a local file
C1_Witness ==
    \E P \in DOMAIN written :
        /\ IsDatastore(store)
        /\ stat(store, P).inode.version >= 2
        /\ last.path # P
        /\ NamesLocalFile(written[P].data)
        /\ written[P].force_data
        /\ getfile(store, P).inode.data = written[P].data

\* C2: for every path P whose file a deletefile(P) removed (and on which nothing
\* has been created since), getfile(P) and stat(P) without force fail with
\* ENOENT, and so does getinode of the deleted inode, also while a storage
\* driver still serves the envelope of the deleted inode.
C2_DeletedIsNotFound ==
    \A P \in DOMAIN gone :
        IsDatastore(store) /\ gone[P].op = "deletefile" =>
            /\ getfile(store, P).error /\ getfile(store, P).errno = ENOENT
            /\ stat(store, P).error /\ stat(store, P).errno = ENOENT
            /\ getinode(store, gone[P].uuid).error
            /\ getinode(store, gone[P].uuid).errno = ENOENT

\* a file was deleted, its tombstone is recorded, and a driver of the datastore
\* still serves the envelope written before the deletion
C2_Witness ==
    \E P \in DOMAIN gone :
        /\ IsDatastore(store)
        /\ gone[P].op = "deletefile"
        /\ is_tombstoned(store, gone[P].uuid, LocalDevice)
        /\ driver_get(store, gone[P].uuid).type = MUTABLE_DATUM_FILE_TYPE
        /\ driver_get(store, gone[P].uuid).data # <<>>

\* a step in which putfile(P) succeeded
PutfileStep(P) == last'.op = "putfile" /\ last'.path = P /\ store' # store

\* C3: for every path P that stays a file written by putfile, a step in which
\* putfile(P, B) succeeds leaves stat(P) reporting a version strictly greater
\* than stat(P) reported before the step, and every other step leaves the
\* version that stat(P) reports as it was; so the versions that stat(P)
\* reports after successive successful putfile(P, Bi) are strictly increasing.
C3_VersionStrictlyIncreases ==
    [][\A P \in DOMAIN written \cap DOMAIN written' :
          (store' # store /\ IsDatastore(store)) =>
            LET before == stat(store, P)
                after == stat(store', P)
            IN  /\ ~before.error
                /\ ~after.error
                /\ IF PutfileStep(P)
                   THEN after.inode.version > before.inode.version
                   ELSE after.inode.version = before.inode.version]_vars

\* a third successful putfile on the same path
C3_Witness ==
    \E P \in DOMAIN written :
        /\ IsDatastore(store)
        /\ last = [op |-> "putfile", path |-> P]
        /\ stat(store, P).inode.version = 3

\* the leaf name of P is present in the directory that holds it
LeafPresent(st, P) ==
    /\ st.ds.exists
    /\ ~resolve(st, Front(P), FALSE).error
    /\ resolve(st, Front(P), FALSE).inode.type = MUTABLE_DATUM_DIR_TYPE
    /\ Last(P) \in DOMAIN resolve(st, Front(P), FALSE).inode.children

\* C4: for every path P whose leaf name is present in its parent directory
\* (as a file or as a directory), mkdir(P) fails with errno EEXIST (17) and
\* changes nothing: the parent's entries, the inode at P and all the rest of
\* the stored state are the same after the call as before it.
C4_MkdirExisting ==
    \A P \in LeafPaths : LeafPresent(store, P) =>
        /\ mkdir(store, P).res.error
        /\ mkdir(store, P).res.errno = EEXIST
        /\ mkdir(store, P).st = store

\* mkdir(P) has just succeeded, so a second mkdir(P) finds the name present
C4_Witness ==
    /\ last.op = "mkdir"
    /\ LeafPresent(store, last.path)
    /\ mkdir(store, last.path).res.errno = EEXIST

\* C5: after mkdir(P) has succeeded (its parent resolved to a directory that
\* did not hold the leaf name), stat(P) succeeds and reports the inode type
\* directory.
C5_MkdirThenStat ==
    IsDatastore(store) /\ last.op = "mkdir" =>
        /\ ~stat(store, last.path).error
        /\ stat(store, last.path).inode.type = MUTABLE_DATUM_DIR_TYPE

\* mkdir succeeded on a path below the root directory
C5_Witness ==
    /\ IsDatastore(store)
    /\ last.op = "mkdir"
    /\ Len(last.path) = 2
    /\ stat(store, last.path).inode.type = MUTABLE_DATUM_DIR_TYPE

\* P resolves to a directory
IsDirectory(st, P) ==
    /\ st.ds.exists
    /\ ~resolve(st, P, FALSE).error
    /\ resolve(st, P, FALSE).inode.type = MUTABLE_DATUM_DIR_TYPE

\* C6: for every directory P other than the root, with or without force and
\* whatever the drivers do on delete: while P has one or more entries, rmdir(P)
\* fails with ENOTEMPTY and leaves the stored state as it was; when P has no
\* entry (none was made, or all have been removed), rmdir(P) succeeds and P no
\* longer resolves.
C6_RmdirNotEmpty ==
    \A P \in LeafPaths : IsDirectory(store, P) =>
        \A force \in BOOLEAN, nodel \in SUBSET lazy_drivers :
            LET r == cli_datastore_rmdir(store, ENOENT, P, force, LocalDevice, nodel)
            IN  IF DOMAIN resolve(store, P, FALSE).inode.children # {}
                THEN r.res.error /\ r.res.errno = ENOTEMPTY /\ r.st = store
                ELSE ~r.res.error /\ resolve(r.st, P, FALSE).error

\* a directory whose only entry has just been removed, so that rmdir now succeeds
C6_Witness ==
    \E Q \in DOMAIN gone :
        /\ Len(Q) = 2
        /\ last.path = Q
        /\ last.op \in {"deletefile", "rmdir"}
        /\ IsDirectory(store, Front(Q))
        /\ DOMAIN resolve(store, Front(Q), FALSE).inode.children = {}
        /\ ~cli_datastore_rmdir(store, ENOENT, Front(Q), FALSE, LocalDevice, {}).res.error

\* the names that listdir(D) returns, with their entries
Entries(st, D) == listdir(st, D).inode.children

\* the name that the step inserted into directory D, if any
Inserted(D) ==
    IF store' # store /\ last'.op \in {"mkdir", "putfile"} /\ Front(last'.path) = D
    THEN {Last(last'.path)} ELSE {}

\* the names that the step removed from directory D
Removed(D) ==
    IF store' # store /\ last'.op \in {"deletefile", "rmdir", "rmtree"}
    THEN IF last'.path = <<>> THEN (IF D = <<>> THEN Names ELSE {})
         ELSE IF Front(last'.path) = D THEN {Last(last'.path)} ELSE {}
    ELSE {}

\* C7: in a datastore of type "datastore", listdir(D) on a live directory D
\* returns exactly the names inserted into D and not removed since.  A new
\* datastore lists no name in its root and a new directory lists none; every
\* step changes the names listed in a directory that is live before and after
\* it by exactly the name a successful mkdir or putfile inserted and the name a
\* successful deletefile, rmdir or rmtree removed, and leaves the entry of every
\* other name as it was; every name listed resolves, every file written and not
\* removed is listed, and no removed name is listed.
C7_ListdirExact ==
    [][(store' # store /\ IsDatastore(store')) =>
        /\ ~ds.exists => ~listdir(store', <<>>).error /\ DOMAIN Entries(store', <<>>) = {}
        /\ last'.op = "mkdir" =>
               ~listdir(store', last'.path).error
               /\ DOMAIN Entries(store', last'.path) = {}
        /\ \A D \in Paths :
            LET before == listdir(store, D)
                after == listdir(store', D)
            IN  /\ (ds.exists /\ ~before.error /\ ~after.error) =>
                    /\ DOMAIN after.inode.children
                           = (DOMAIN before.inode.children \cup Inserted(D)) \ Removed(D)
                    /\ \A n \in (DOMAIN after.inode.children
                                     \cap DOMAIN before.inode.children) \ Inserted(D) :
                           after.inode.children[n] = before.inode.children[n]
                /\ ~after.error =>
                       \A n \in DOMAIN after.inode.children :
                           ~stat(store', Append(D, n)).error
        /\ \A P \in DOMAIN written' :
               ~listdir(store', Front(P)).error
               /\ Last(P) \in DOMAIN Entries(store', Front(P))
        /\ \A P \in DOMAIN gone' :
               listdir(store', Front(P)).error
               \/ Last(P) \notin DOMAIN Entries(store', Front(P))]_vars

\* a directory that held two names lists the one that was not removed
C7_Witness ==
    \E P \in DOMAIN gone, n \in Names :
        /\ IsDatastore(store)
        /\ last.path = P
        /\ last.op \in {"deletefile", "rmdir"}
        /\ n # Last(P)
        /\ ~listdir(store, Front(P)).error
        /\ DOMAIN Entries(store, Front(P)) = {n}
        /\ ~stat(store, Append(Front(P), n)).error

\* C8: in a datastore of type "datastore", for every path P whose directory a
\* successful rmdir(P) removed (and on which nothing has been created since),
\* stat(P), listdir(P) and another rmdir(P), with or without force, each fail
\* with errno ENOENT (2).
C8_RemovedDirIsNotFound ==
    \A P \in DOMAIN gone :
        IsDatastore(store) /\ gone[P].op = "rmdir" =>
            /\ stat(store, P).error /\ stat(store, P).errno = ENOENT
            /\ listdir(store, P).error /\ listdir(store, P).errno = ENOENT
            /\ \A force \in BOOLEAN, nodel \in SUBSET lazy_drivers :
                LET r == cli_datastore_rmdir(store, ENOENT, P, force, LocalDevice, nodel)
                IN  r.res.error /\ r.res.errno = ENOENT /\ r.st = store

\* rmdir has just removed a directory below the root, whose parent is live
C8_Witness ==
    /\ IsDatastore(store)
    /\ last.op = "rmdir"
    /\ last.path \in DOMAIN gone
    /\ Len(last.path) = 2
    /\ ~listdir(store, Front(last.path)).error
    /\ listdir(store, last.path).errno = ENOENT

\* every file has been deleted and every directory removed: deletefile or rmdir
\* removed the last entry of the root directory
AllRemoved ==
    /\ IsDatastore(store)
    /\ last.op \in {"deletefile", "rmdir"}
    /\ ~listdir(store, <<>>).error
    /\ DOMAIN Entries(store, <<>>) = {}

\* the drivers that still hold some key after the call returned r
DriversWithKeys(r) ==
    {d \in DriverNames : \E u \in Uuids : r.st.blobs[d][u] # NoInode}

\* C9 as stated: once deletefile and rmdir have removed everything, listdir("/")
\* returns an empty mapping and delete_datastore succeeds, after which no
\* storage driver holds any key of the datastore.
C9_NoKeyRemains ==
    AllRemoved =>
        \A force \in BOOLEAN, nodel \in SUBSET lazy_drivers :
            LET r == delete_datastore_by_type(store, ENOENT, "datastore", force,
                                              LocalDevice, nodel)
            IN  ~r.res.error /\ ~r.st.ds.exists /\ DriversWithKeys(r) = {}

\* C9 amended: once deletefile and rmdir have removed everything, listdir("/")
\* returns an empty mapping and delete_datastore succeeds and removes the
\* datastore record; afterwards no key remains on any driver that carries out
\* its deletes.  A driver whose delete is a no-op may still hold envelopes, and
\* holds none when all its deletes were carried out.
C9_NoKeyOnDeletingDrivers ==
    AllRemoved =>
        /\ Entries(store, <<>>) = NoChildren
        /\ \A force \in BOOLEAN, nodel \in SUBSET lazy_drivers :
            LET r == delete_datastore_by_type(store, ENOENT, "datastore", force,
                                              LocalDevice, nodel)
            IN  /\ ~r.res.error
                /\ ~r.st.ds.exists
                /\ DriversWithKeys(r) \subseteq LazyDrivers
                /\ (nodel = {} /\ DriversWithKeys([st |-> store]) \cap LazyDrivers = {})
                       => DriversWithKeys(r) = {}

\* a file and the directory that held it have been removed, and the datastore
\* keeps its keys on a driver that deletes and on one that may not
C9_Witness ==
    /\ AllRemoved
    /\ \E P, Q \in DOMAIN gone : gone[P].op = "deletefile" /\ gone[Q].op = "rmdir"
    /\ ds.drivers = <<"lazy", "disk">>
    /\ ~delete_datastore_by_type(store, ENOENT, "datastore", FALSE, LocalDevice,
                                 {}).res.error

\* C10: while a datastore record exists, create_datastore, for either type and
\* any list of drivers, fails with errno EEXIST and stores nothing: the record,
\* its root inode and all the rest of the stored state are as before the call.
C10_CreateExisting ==
    ds.exists =>
        \A t \in DatastoreTypes, drivers \in DriverLists, be \in BackendErrnos :
            LET r == create_datastore_by_type(store, be, t, drivers, LocalDevice)
            IN  r.res.error /\ r.res.errno = EEXIST /\ r.st = store

\* a datastore whose root directory has been written since it was created
C10_Witness ==
    /\ ds.exists
    /\ last.op \in {"mkdir", "putfile"}
    /\ load_inode(store, ds.root_uuid, FALSE).inode.version >= 2
    /\ create_datastore_by_type(store, ENOENT, "collection", <<"disk">>,
                                LocalDevice).res.errno = EEXIST

\* the entry that directory D holds under name n, if D is a live directory
\* that holds one
HasEntry(st, D, n) ==
    /\ st.ds.exists
    /\ ~datastore_listdir(st, D, FALSE).error
    /\ n \in DOMAIN datastore_listdir(st, D, FALSE).inode.children

EntryOf(st, D, n) == datastore_listdir(st, D, FALSE).inode.children[n]

\* the inodes that are live: an envelope is served and no tombstone rejects it
LiveInodes(st) == {u \in Uuids : ~load_inode(st, u, FALSE).error}

\* C11: no directory gets a second live entry under a name it already holds.
\* A successful mkdir(D/n) or putfile(D/n) step on a name that D held before the
\* step is a putfile that keeps the entry (the same inode and type) and makes
\* no new inode; mkdir never succeeds on such a name.  After the step D holds n
\* once, every live inode is held under one name of one directory only, and
\* there are as many live inodes below the root as there are entries.
C11_NoDuplicateName ==
    [][(store' # store /\ last'.op \in {"mkdir", "putfile"}) =>
        LET D == Front(last'.path)
            n == Last(last'.path)
        IN  /\ HasEntry(store', D, n)
            /\ HasEntry(store, D, n) =>
                   /\ last'.op = "putfile"
                   /\ EntryOf(store', D, n) = EntryOf(store, D, n)
                   /\ next' = next
                   /\ LiveInodes(store') = LiveInodes(store)
            /\ ~HasEntry(store, D, n) =>
                   /\ next' = next + 1
                   /\ EntryOf(store', D, n).uuid = next
                   /\ LiveInodes(store') = LiveInodes(store) \cup {next}]_vars

\* putfile has overwritten a file next to which a directory was made
C11_Witness ==
    \E P \in DOMAIN written :
        /\ last = [op |-> "putfile", path |-> P]
        /\ HasEntry(store, Front(P), Last(P))
        /\ load_inode(store, EntryOf(store, Front(P), Last(P)).uuid, FALSE).inode.version >= 2
        /\ \E n \in Names \ {Last(P)} :
               /\ HasEntry(store, Front(P), n)
               /\ EntryOf(store, Front(P), n).type = MUTABLE_DATUM_DIR_TYPE

\* the inodes that following entry maps from the root directory reaches
Reachable(st) ==
    {walk(st, load_inode(st, st.ds.root_uuid, FALSE), P, FALSE).uuid :
        P \in {Q \in Paths : ~walk(st, load_inode(st, st.ds.root_uuid, FALSE), Q, FALSE).error}}

\* C12: while a datastore exists, every live inode is reachable from the root
\* directory through directory entries: no successful mkdir, putfile,
\* deletefile, rmdir or rmtree leaves a live inode that no directory refers to.
C12_NoOrphan ==
    ds.exists => LiveInodes(store) \subseteq Reachable(store)

\* rmtree has removed a directory together with the inode it held, and the
\* root directory stays live
C12_Witness ==
    /\ ds.exists
    /\ last.op = "rmtree"
    /\ Len(last.path) = 1
    /\ Cardinality({u \in Uuids : is_tombstoned(store, u, LocalDevice)}) >= 2
    /\ ds.root_uuid \in LiveInodes(store)

\* the version known for inode u: the newest any device of the set has written
KnownVersion(st, u) == current_version(st, u, Devices)

\* the read r, if it succeeded, returned the known version of its inode
ReadsKnownVersion(st, r) == ~r.error => r.inode.version = KnownVersion(st, r.uuid)

\* C13: the version that a successful read without force returns for an inode
\* never decreases from one read to a later one, whatever the storage drivers
\* serve: in every state each successful stat, getfile, listdir and getinode
\* without force returns the version known for the inode it read, and no step
\* lowers the version known for an inode.
C13_ReadVersionNeverDecreases ==
    [][store' # store =>
        /\ \A u \in Uuids : KnownVersion(store', u) >= KnownVersion(store, u)
        /\ IsDatastore(store') =>
            /\ \A u \in Uuids : ReadsKnownVersion(store', getinode(store', u))
            /\ \A P \in Paths :
                /\ ReadsKnownVersion(store', stat(store', P))
                /\ ReadsKnownVersion(store', getfile(store', P))
                /\ ReadsKnownVersion(store', listdir(store', P))]_vars

\* stat succeeds with the known version of an overwritten file while the driver
\* that missed the overwrite still holds the older envelope
C13_Witness ==
    \E P \in LeafPaths :
        /\ IsDatastore(store)
        /\ ~stat(store, P).error
        /\ stat(store, P).inode.version >= 2
        /\ blobs["disk"][stat(store, P).uuid].type = MUTABLE_DATUM_FILE_TYPE
        /\ blobs["disk"][stat(store, P).uuid].version < stat(store, P).inode.version

\* C14 for the datastore: every inode whose deletefile or rmdir reported
\* success, and every inode made and no longer live while the datastore
\* exists, has a tombstone for every device of the device set.
C14_DatastoreDeletionsTombstoned ==
    /\ \A P \in DOMAIN gone : \A d \in Devices : is_tombstoned(store, gone[P].uuid, d)
    /\ ds.exists =>
        \A u \in Uuids : (u < next /\ u \notin LiveInodes(store)) =>
            \A d \in Devices : is_tombstoned(store, u, d)

\* the data identifiers that some storage driver holds an envelope for
StoredData(st) == {u \in Uuids : \E d \in DriverNames : st.blobs[d][u] # NoInode}

\* C14 as stated: a deletion reports success for a data identifier only when a
\* tombstone for it has been submitted for every device of the device set; for
\* deletefile, rmdir and rmtree as above, and for delete_mutable whatever the
\* storage and the second delete_mutable call do.
C14_TombstoneBeforeSuccess ==
    /\ C14_DatastoreDeletionsTombstoned
    /\ \A data_id \in StoredData(store), valid \in BOOLEAN, first_ok \in BOOLEAN,
          second \in SecondCall :
        LET r == cli_delete_mutable(store, data_id, valid, first_ok, second)
        IN  ~r.res.error => \A d \in get_all_device_ids : is_tombstoned(r.st, data_id, d)

\* putfile takes the payload: it is data, or the name of a local file it can read
PayloadTaken(data, force_data) == ~file_put_data(data, force_data).error

StaleParent(st, P) ==
    /\ resolve_parent(st, P, FALSE).error
    /\ resolve_parent(st, P, FALSE).errno = EPERM
    /\ ~resolve_parent(st, P, TRUE).error

\* C16: wherever the parent directory of P is stale, so that putfile(P) without
\* force fails with EPERM, putfile(P) with force=true succeeds.
C16_ForceToleratesStale ==
    \A P \in LeafPaths : StaleParent(store, P) =>
        LET plain == cli_datastore_putfile(store, ENOENT, P, <<"x">>, FALSE, FALSE, TRUE,
                                           LocalDevice)
            forced == cli_datastore_putfile(store, ENOENT, P, <<"x">>, FALSE, TRUE, TRUE,
                                            LocalDevice)
        IN  /\ plain.res.error /\ plain.res.errno = EPERM
            /\ ~forced.res.error

\* the inode layer itself takes the stale parent when it is handed force
C16_CoreToleratesStale ==
    \A P \in LeafPaths : StaleParent(store, P) =>
        \/ ~datastore_putfile(store, P, <<"x">>, FALSE, TRUE, LocalDevice).res.error
        \/ datastore_putfile(store, P, <<"x">>, FALSE, TRUE, LocalDevice).res.errno # EPERM

\* a result that reports failure and names no errno
FailsWithoutErrno(res) == res.error /\ res.errno = 0

\* C17: every failure result of a datastore operation carries an errno, a
\* failure for a missing record and one for a record of the other type included.
C17_FailuresCarryErrno ==
    \A P \in Paths :
        /\ ~FailsWithoutErrno(getfile(store, P))
        /\ ~FailsWithoutErrno(stat(store, P))
        /\ ~FailsWithoutErrno(listdir(store, P))
        /\ \A u \in Uuids : ~FailsWithoutErrno(getinode(store, u))
        /\ P # <<>> => ~FailsWithoutErrno(mkdir(store, P).res)
        /\ P # <<>> => ~FailsWithoutErrno(cli_datastore_putfile(store, ENOENT, P, <<"x">>, FALSE,
                                                                FALSE, TRUE, LocalDevice).res)

\* what the inode layer and the listing wrapper return does carry an errno
C17_CoreFailuresCarryErrno ==
    \A P \in Paths :
        /\ ~FailsWithoutErrno(listdir(store, P))
        /\ store.ds.exists =>
            /\ ~FailsWithoutErrno(datastore_getfile(store, P, FALSE))
            /\ ~FailsWithoutErrno(datastore_stat(store, P, FALSE))
            /\ P # <<>> => ~FailsWithoutErrno(datastore_mkdir(store, P, LocalDevice).res)

IsCollection(st) == st.ds.exists /\ st.ds.type = "collection"

C19_TypeMismatchRefused ==
    IsDatastore(store) =>
        \A P \in Paths :
            LET s == stat(store, P) IN
            ~s.error =>
                /\ s.inode.type = MUTABLE_DATUM_DIR_TYPE =>
                    LET g == getfile(store, P)
                    IN  g.error /\ g.errno = EISDIR /\ g.inode = NoInode
                /\ s.inode.type = MUTABLE_DATUM_FILE_TYPE =>
                    LET l == listdir(store, P)
                    IN  l.error /\ l.errno = ENOTDIR /\ l.inode = NoInode

\* a datastore holds a directory below its root and a file, and each is refused
\* to the read of the other type
C19_Witness ==
    /\ IsDatastore(store)
    /\ \E P \in LeafPaths, Q \in LeafPaths :
        /\ ~stat(store, P).error
        /\ stat(store, P).inode.type = MUTABLE_DATUM_DIR_TYPE
        /\ ~stat(store, Q).error
        /\ stat(store, Q).inode.type = MUTABLE_DATUM_FILE_TYPE
        /\ getfile(store, P).errno = EISDIR
        /\ listdir(store, Q).errno = ENOTDIR

\* some segment of the parent path of P is absent from its directory
ParentAbsent(st, P) ==
    /\ resolve(st, Front(P), FALSE).error
    /\ resolve(st, Front(P), FALSE).errno = ENOENT

\* C20: mkdir(P) where some parent segment of P does not exist fails with
\* ENOENT and leaves the store as it was: no inode is made, no entry is put in
\* any directory.
C20_MkdirNoParent ==
    IsDatastore(store) =>
        \A P \in LeafPaths : ParentAbsent(store, P) =>
            LET r == mkdir(store, P) IN
            /\ r.res.error
            /\ r.res.errno = ENOENT
            /\ r.st = store
            /\ LiveInodes(r.st) = LiveInodes(store)

\* a directory was removed, and a mkdir below it is refused with ENOENT
C20_Witness ==
    /\ IsDatastore(store)
    /\ last.op = "rmdir"
    /\ ParentAbsent(store, Append(last.path, "a"))
    /\ mkdir(store, Append(last.path, "a")).res.errno = ENOENT

\* the inode u exists for the readers: a driver serves it, no tombstone names
\* it, and what is served is the newest version written
InodeExists(st, u) ==
    /\ driver_get(st, u).type # "none"
    /\ \A d \in Devices : ~is_tombstoned(st, u, d)
    /\ driver_get(st, u).version >= current_version(st, u, Devices)

\* no inode u: no driver serves it, or a tombstone names it
NoSuchInode(st, u) ==
    \/ driver_get(st, u).type = "none"
    \/ \E d \in Devices : is_tombstoned(st, u, d)

\* C21: getinode(uuid) on a datastore returns the inode with that uuid whenever
\* it exists and is not tombstoned, and fails with ENOENT when there is none.
C21_GetinodeReturnsInode ==
    IsDatastore(store) =>
        \A u \in Uuids :
            LET r == cli_datastore_getinode(store, ENOENT, u, FALSE) IN
            /\ InodeExists(store, u) =>
                ~r.error /\ r.uuid = u /\ r.inode = driver_get(store, u)
            /\ NoSuchInode(store, u) => r.error /\ r.errno = ENOENT

\* the function below the command does what the command is said to do
C21_TypedGetinodeReturnsInode ==
    IsDatastore(store) =>
        \A u \in Uuids :
            LET r == getinode(store, u) IN
            /\ InodeExists(store, u) =>
                ~r.error /\ r.uuid = u /\ r.inode = driver_get(store, u)
            /\ NoSuchInode(store, u) => r.error /\ r.errno = ENOENT

\* C22: deleting a datastore first empties it with rmtree("/") and then deletes
\* the record; when the rmtree fails and force is false the call fails with
\* ENOTEMPTY and the record stays; when force is true the record is deleted
\* though the rmtree failed.
C22_DeleteDatastoreEmptiesFirst ==
    store.ds.exists =>
        \A nodel \in SUBSET lazy_drivers :
            LET tree == datastore_rmtree(store, <<>>, LocalDevice, nodel)
                plain == delete_datastore_by_type(store, ENOENT, store.ds.type, FALSE,
                                                  LocalDevice, nodel)
                forced == delete_datastore_by_type(store, ENOENT, store.ds.type, TRUE,
                                                   LocalDevice, nodel)
            IN  /\ tree.res.error =>
                    /\ plain.res.error /\ plain.res.errno = ENOTEMPTY
                    /\ plain.st.ds = store.ds
                    /\ ~forced.res.error
                    /\ ~forced.st.ds.exists
                /\ ~tree.res.error =>
                    /\ ~plain.res.error
                    /\ ~plain.st.ds.exists
                    /\ tree.st.tombs \subseteq plain.st.tombs
                    /\ plain.st = forced.st

\* a forced delete has deleted the record of a datastore whose rmtree failed:
\* an inode of the datastore is left on a driver with no tombstone
C22_ForcedDeleteActed ==
    /\ last.op = "delete_datastore"
    /\ ~ds.exists
    /\ \E u \in Uuids, d \in DriverNames :
        /\ blobs[d][u].type # "none"
        /\ \A dev \in Devices : ~is_tombstoned(store, u, dev)

\* a datastore that holds an entry cannot be emptied, its root directory being
\* stale: the plain delete is refused and the forced one deletes the record
C22_Witness ==
    /\ store.ds.exists
    /\ \E n \in Names : n \in DOMAIN driver_get(store, store.ds.root_uuid).children
    /\ datastore_rmtree(store, <<>>, LocalDevice, {}).res.error
    /\ delete_datastore_by_type(store, ENOENT, store.ds.type, FALSE, LocalDevice,
                                {}).res.errno = ENOTEMPTY
    /\ ~delete_datastore_by_type(store, ENOENT, store.ds.type, TRUE, LocalDevice,
                                 {}).st.ds.exists

\* the uuids that were ever given to an inode: a driver holds an envelope for
\* it, a device recorded a version of it, or a tombstone names it
Allocated(st) ==
    {u \in Uuids :
        \/ \E d \in DriverNames : st.blobs[d][u].type # "none"
        \/ \E dev \in Devices : st.vers[dev][u] > 0
        \/ \E dev \in Devices : is_tombstoned(st, u, dev)}

\* C23: an inode uuid is never reused: every uuid given out is below the
\* allocation mark, which never goes back; and a putfile(P, B) or mkdir(P) that
\* follows a successful deletefile(P) or rmdir(P) makes an inode whose uuid was
\* never given out before, which the tombstones of the removed inode do not
\* hide: stat(P) finds it and getfile(P) returns B.
C23_UuidNeverReused ==
    [][store' # store =>
        /\ next' >= next
        /\ \A u \in Allocated(store') : u < next'
        /\ (last'.op \in {"putfile", "mkdir"} /\ last'.path \in DOMAIN gone) =>
            LET P == last'.path
                s == stat(store', P)
            IN  /\ ~s.error
                /\ s.uuid # gone[P].uuid
                /\ s.uuid \notin Allocated(store)
                /\ \A dev \in Devices : is_tombstoned(store', gone[P].uuid, dev)
                /\ last'.op = "putfile" =>
                    LET g == getfile(store', P)
                    IN  /\ ~g.error
                        /\ g.inode.data =
                             file_put_data(written'[P].data, written'[P].force_data).inode.data
    ]_vars

\* a file was deleted at P, and the putfile at P that comes next makes a file
\* with a new uuid that getfile reads
C23_Witness ==
    \E P \in DOMAIN gone :
        LET r == cli_datastore_putfile(store, ENOENT, P, <<"x">>, FALSE, FALSE, TRUE,
                                       LocalDevice)
        IN  /\ gone[P].op = "deletefile"
            /\ ~r.res.error
            /\ TreeInBounds(r.st)
            /\ stat(r.st, P).uuid = next
            /\ stat(r.st, P).uuid # gone[P].uuid
            /\ getfile(r.st, P).inode.data = <<"x">>

\* a save made in one step is the version query followed by the write
C24_SaveIsQueryThenWrite ==
    \A u \in Uuids, dev \in Devices :
        save_inode(store, ds.drivers, u, create_inode(MUTABLE_DATUM_FILE_TYPE), dev)
          = write_inode(store, ds.drivers, u, create_inode(MUTABLE_DATUM_FILE_TYPE), dev,
                        next_version(store, u, Devices))

\* the device's save ran while another device was between the query and the
\* write of a save of the same inode, and both saves are over
RacedAndOver(dev) ==
    /\ race[dev].pc = "done"
    /\ race[dev].overlap
    /\ \A d \in Devices : race[d].uuid = race[dev].uuid => race[d].pc = "done"

DeviceLists == UNION {[1..n -> Devices] : n \in 0..3}

\* C25: current_version(data_id, device_ids) is the maximum over the devices of
\* device_ids of the device's last recorded version of data_id, a device with
\* no record counting as 0, whatever the order of device_ids.
C25_CurrentVersionIsMax ==
    \A u \in Uuids, l \in DeviceLists :
        LET v == current_version_list(store, u, l) IN
        /\ \A i \in DOMAIN l : v >= vers[l[i]][u]
        /\ v = 0 \/ \E i \in DOMAIN l : v = vers[l[i]][u]
        /\ (\A i \in DOMAIN l : vers[l[i]][u] = 0) => v = 0
        /\ v = current_version(store, u, Range(l))
        /\ \A k \in DeviceLists :
            Range(k) = Range(l) => current_version_list(store, u, k) = v

\* two devices have recorded different versions of an inode, and the query
\* gives the greater one in both orders
C25_Witness ==
    \E u \in Uuids :
        /\ vers["d1"][u] > 0
        /\ vers["d2"][u] > vers["d1"][u]
        /\ current_version_list(store, u, <<"d1", "d2">>) = vers["d2"][u]
        /\ current_version_list(store, u, <<"d2", "d1">>) = vers["d2"][u]

\* C26: every write uses next_version = current_version + 1: the version a save
\* takes is greater than every version any device of the device set has
\* recorded for the inode at the time of the query, and it is the version the
\* save then writes and records; so also for a device that has never written.
C26_WrittenVersionIsNewer ==
    [][/\ \A dev \in Devices :
            /\ (race[dev].pc = "idle" /\ race'[dev].pc = "queried") =>
                /\ \A d \in Devices : race'[dev].version > vers[d][race'[dev].uuid]
                /\ race'[dev].version = current_version(store, race'[dev].uuid, Devices) + 1
            /\ (race[dev].pc = "queried" /\ race'[dev].pc = "done") =>
                /\ vers'[dev][race[dev].uuid] = race[dev].version
                /\ \A d \in DriverNames : d \in Range(ds.drivers) =>
                    blobs'[d][race[dev].uuid].version = race[dev].version
       /\ (race' = race /\ vers' # vers) =>
            \A dev \in Devices, u \in Uuids :
                vers'[dev][u] # vers[dev][u] =>
                    \A d \in Devices : vers'[dev][u] > vers[d][u]
    ]_vars

\* a device that has never written the inode has queried its version, and will
\* write one more than what the other device recorded
C26_Witness ==
    \E dev \in Devices, other \in Devices :
        /\ race[dev].pc = "queried"
        /\ vers[dev][race[dev].uuid] = 0
        /\ vers[other][race[dev].uuid] >= 2
        /\ race[dev].version = vers[other][race[dev].uuid] + 1

\* no configured driver has an envelope for u
NoDriverHas(st, u) == \A i \in DOMAIN st.ds.drivers : st.blobs[st.ds.drivers[i]][u].type = "none"

\* a tombstone for u is found
TombstoneFound(st, u) == \E d \in Devices : is_tombstoned(st, u, d)

\* the envelope fetched for u is older than a version a device has recorded
FetchedIsStale(st, u) ==
    /\ ~NoDriverHas(st, u)
    /\ \E d \in Devices : driver_get(st, u).version < st.vers[d][u]

Down == SUBSET (Devices \ {LocalDevice}) \ {{}}

\* C28: when a device's version query fails during a write, the write fails as
\* a whole and writes nothing unless the caller passed force=true, and with
\* force=true it goes on with the devices that answered.
C28_ForceSelectsPermissive ==
    IsDatastore(store) =>
        \A path \in LeafPaths, down \in Down :
            LET whole == cli_datastore_putfile(store, ENOENT, path, <<"x">>, FALSE, FALSE, TRUE,
                                               LocalDevice)
                plain == cli_datastore_putfile_down(store, ENOENT, path, <<"x">>, FALSE, FALSE,
                                                    TRUE, LocalDevice, down)
                forced == cli_datastore_putfile_down(store, ENOENT, path, <<"x">>, FALSE, TRUE,
                                                     TRUE, LocalDevice, down)
            IN  ~whole.res.error =>
                    /\ plain.res.error
                    /\ plain.st = store
                    /\ ~forced.res.error
                    /\ forced.st # store

\* the inode layer does select the permissive mode when it is handed force, and
\* only then
C28_CoreSelectsPermissive ==
    IsDatastore(store) =>
        \A path \in LeafPaths, down \in Down :
            LET whole == datastore_putfile(store, path, <<"x">>, FALSE, FALSE, LocalDevice)
                plain == datastore_putfile_down(store, path, <<"x">>, FALSE, FALSE,
                                                LocalDevice, down)
                forced == datastore_putfile_down(store, path, <<"x">>, FALSE, TRUE,
                                                 LocalDevice, down)
            IN  ~whole.res.error =>
                    /\ plain.res.error
                    /\ plain.st = store
                    /\ ~forced.res.error
                    /\ forced.st # store
                    /\ \A d \in down : forced.st.vers[d] = store.vers[d]

\* C29: save_inode writes the envelope to every configured driver and succeeds
\* if and only if one or more of the driver writes succeeded: it fails, and
\* stores nothing, when every driver write failed, and the failure of some of
\* the drivers does not fail it.
C29_SaveNeedsOneDriver ==
    IsDatastore(store) =>
        \A u \in Uuids, failed \in SUBSET DriverNames :
            LET drivers == ds.drivers
                inode == [create_inode(MUTABLE_DATUM_FILE_TYPE) EXCEPT !.data = <<"x">>]
                r == save_inode_failing(store, drivers, u, inode, LocalDevice, failed)
                v == next_version(store, u, Devices)
            IN  /\ r.res.error <=> Range(drivers) \subseteq failed
                /\ r.res.error => r.st = store
                /\ ~r.res.error =>
                    /\ \A d \in Range(drivers) \ failed :
                        r.st.blobs[d][u] = [inode EXCEPT !.version = v]
                    /\ \A d \in failed : r.st.blobs[d][u] = store.blobs[d][u]
                    /\ r.st.vers[LocalDevice][u] = v
                /\ failed = {} =>
                    r.st = save_inode(store, drivers, u, inode, LocalDevice)

\* a call has succeeded whose save one of the two drivers did not take: the
\* drivers hold different versions of an inode
C29_Witness ==
    /\ IsDatastore(store)
    /\ last.op \in {"mkdir", "putfile"}
    /\ \E u \in Uuids :
        /\ blobs["disk"][u].version # blobs["lazy"][u].version
        /\ \A dev \in Devices : ~is_tombstoned(store, u, dev)
        /\ LET r == save_inode_failing(store, ds.drivers, u, blobs["disk"][u], LocalDevice,
                                       {"lazy"})
           IN  ~r.res.error /\ r.st.blobs["lazy"][u] = blobs["lazy"][u]

\* the entry map of the directory envelope the drivers serve for u
EntryMap(st, u) == driver_get(st, u).children

\* C30: resolve walks the segments of the path from root_uuid: the path "/"
\* resolves to the root inode; a segment absent from the entry map of the
\* directory reached fails with ENOENT; an intermediate segment that is a file
\* fails with ENOTDIR; a path whose segments are all present resolves to the
\* inode of its last entry.
C30_ResolveWalks ==
    IsDatastore(store) =>
        LET root == EntryMap(store, ds.root_uuid) IN
        /\ ~stat(store, <<>>).error
        /\ stat(store, <<>>).uuid = ds.root_uuid
        /\ stat(store, <<>>).inode.type = MUTABLE_DATUM_DIR_TYPE
        /\ \A n \in Names :
            /\ n \notin DOMAIN root =>
                /\ stat(store, <<n>>).error /\ stat(store, <<n>>).errno = ENOENT
                /\ \A m \in Names :
                    stat(store, <<n, m>>).error /\ stat(store, <<n, m>>).errno = ENOENT
            /\ n \in DOMAIN root =>
                /\ ~stat(store, <<n>>).error
                /\ stat(store, <<n>>).uuid = root[n].uuid
                /\ stat(store, <<n>>).inode.type = root[n].type
                /\ \A m \in Names :
                    LET s == stat(store, <<n, m>>) IN
                    /\ root[n].type = MUTABLE_DATUM_FILE_TYPE =>
                        s.error /\ s.errno = ENOTDIR
                    /\ (root[n].type = MUTABLE_DATUM_DIR_TYPE
                          /\ m \notin DOMAIN EntryMap(store, root[n].uuid)) =>
                        s.error /\ s.errno = ENOENT
                    /\ (root[n].type = MUTABLE_DATUM_DIR_TYPE
                          /\ m \in DOMAIN EntryMap(store, root[n].uuid)) =>
                        ~s.error /\ s.uuid = EntryMap(store, root[n].uuid)[m].uuid

\* the root holds a file and a directory: a path through the file is refused
\* with ENOTDIR, a path below the directory with ENOENT
C30_Witness ==
    /\ IsDatastore(store)
    /\ \E n \in Names, d \in Names :
        /\ n \in DOMAIN EntryMap(store, ds.root_uuid)
        /\ d \in DOMAIN EntryMap(store, ds.root_uuid)
        /\ EntryMap(store, ds.root_uuid)[n].type = MUTABLE_DATUM_FILE_TYPE
        /\ EntryMap(store, ds.root_uuid)[d].type = MUTABLE_DATUM_DIR_TYPE
        /\ stat(store, <<n, d>>).errno = ENOTDIR
        /\ stat(store, <<d, n>>).errno = ENOENT
        /\ stat(store, <<>>).uuid = ds.root_uuid

\* the entry of the inode the rmtree job started at is out of the directory
\* that held it: for "/", the root directory has no entry left
TopRemoved(st, j) ==
    IF j.path = <<>> THEN EntryMap(st, st.ds.root_uuid) = NoChildren
    ELSE LET p == resolve_parent(st, j.path, FALSE) IN
         /\ ~p.error
         /\ \A n \in DOMAIN p.inode.children : p.inode.children[n].uuid # j.uuid

\* C31: rmtree(P) tombstones every inode at and below P before it takes P's
\* entry out of the parent directory: in no state of an rmtree made one driver
\* call at a time is the top entry removed while an inode that was under P is
\* still live; once the rmtree has succeeded the entry is removed and no inode
\* that was under P is read without force, by uuid or by path; and the rmtree
\* made call by call leaves the store that cli_datastore_rmtree leaves.
C31_DescendantsFirst ==
    /\ (job.op = "rmtree" /\ job.pc # "start" /\ ds.exists /\ TopRemoved(store, job)) =>
           \A u \in job.under : u \notin LiveInodes(store)
    /\ (job.op = "rmtree" /\ job.pc = "done") =>
           /\ TopRemoved(store, job)
           /\ \A u \in job.under :
                  load_inode(store, u, FALSE).error /\ getinode(store, u).error
           /\ \A Q \in Paths : (Q # <<>> /\ IsPrefix(job.path, Q)) => stat(store, Q).error
    /\ (job.op = "rmtree" /\ job.pc = "start") =>
           \A nodel \in SUBSET lazy_drivers :
               LET run == job_run(store, job, LocalDevice, nodel)
                   r == cli_datastore_rmtree(store, ENOENT, job.path, LocalDevice, nodel)
               IN  run.st = r.st /\ (run.job.pc = "done") = ~r.res.error

\* an rmtree of a directory that held an inode has succeeded
C31_Witness ==
    /\ job.op = "rmtree"
    /\ job.pc = "done"
    /\ job.path = <<"a">>
    /\ Cardinality(job.under) >= 2

\* every device's tombstone for the inode u is written
Tombstoned(st, u) == \A d \in Devices : is_tombstoned(st, u, d)

\* C32: when rmtree(P) has failed part-way at a child (it reported the child it
\* failed at and the inodes it had tombstoned, which are tombstoned inodes
\* under P),
\* the state is recoverable: with no driver failing any more, the rmtree(P)
\* that the caller makes again succeeds and leaves every inode that was under
\* P tombstoned and P's entry removed.
C32_RetryRecovers ==
    (job.op = "rmtree" /\ job.pc = "failed" /\ job.done # {}
        /\ job.failed \in job.under \ job.done) =>
        LET r == cli_datastore_rmtree(store, ENOENT, job.path, LocalDevice, {}) IN
        /\ \A u \in job.done : u \in job.under /\ Tombstoned(store, u)
        /\ ~r.res.error
        /\ TopRemoved(r.st, job)
        /\ \A u \in job.under : Tombstoned(r.st, u)

\* the inodes that have been saved
Saved(st) == {u \in Uuids : \E d \in Devices : st.vers[d][u] > 0}

\* the directories the drivers serve
SavedDirectories(st) ==
    {u \in Uuids : driver_get(st, u).type = MUTABLE_DATUM_DIR_TYPE}

\* the directories with an entry for the inode u
Referring(st, u) ==
    {v \in SavedDirectories(st) :
        \E n \in DOMAIN EntryMap(st, v) : EntryMap(st, v)[n].uuid = u}

\* C33: a crash between the save of the child inode and the save of the parent
\* directory, in mkdir or in putfile of a new file, leaves the tree
\* uncorrupted.  The save of the child touched nothing but the new inode (its
\* envelope and its version record) and the uuid counter; the crash touches
\* nothing; and in the state it leaves every entry of every saved directory
\* refers to an inode that has been saved, the parent's entry map is as it was
\* before the operation, and the inode created is saved and in no directory.
C33_CrashLeavesOrphan ==
    [][(job' # job) =>
        /\ (job.pc = "start" /\ job'.pc = "child_saved") =>
            /\ job'.uuid = next
            /\ next' = next + 1
            /\ ds' = ds /\ tombs' = tombs
            /\ \A u \in Uuids \ {job'.uuid} :
                   /\ \A d \in DriverNames : blobs'[d][u] = blobs[d][u]
                   /\ \A d \in Devices : vers'[d][u] = vers[d][u]
        /\ (job.pc = "child_saved" /\ job'.pc = "crashed") =>
            /\ store' = store
            /\ \A v \in SavedDirectories(store') :
                   \A n \in DOMAIN EntryMap(store', v) :
                       EntryMap(store', v)[n].uuid \in Saved(store')
            /\ ~resolve_parent(store', job'.path, FALSE).error
            /\ resolve_parent(store', job'.path, FALSE).inode.children = job'.entries
            /\ Last(job'.path) \notin DOMAIN job'.entries
            /\ job'.uuid \in Saved(store')
            /\ driver_get(store', job'.uuid) =
                   [job_inode(job'.op) EXCEPT !.version = 1]
            /\ Referring(store', job'.uuid) = {}
      ]_vars

\* a mkdir below a directory, and a putfile, have crashed after the child inode was saved
C33_Witness ==
    /\ job.pc = "crashed"
    /\ job.op \in {"mkdir", "putfile"}
    /\ Len(job.path) = 2
    /\ job.uuid \in Saved(store)
    /\ Referring(store, job.uuid) = {}

\* the envelope that the drivers serve for the inode u is not signed with the
\* owning key
ServedForged(st, u) ==
    /\ driver_get(st, u).type # "none"
    /\ <<serving(st, u), u>> \in st.forged

\* the inode that the leaf of P names, by the entry of its parent directory
LeafUuid(st, P, force) ==
    LET p == resolve_parent(st, P, force) IN
    IF P = <<>> THEN st.ds.root_uuid
    ELSE IF p.error \/ Last(P) \notin DOMAIN p.inode.children THEN 0
    ELSE p.inode.children[Last(P)].uuid

\* C34: a read never returns a payload whose envelope signature does not
\* verify under the owning key: what getfile, listdir, stat and getinode
\* return, with force or without, is an envelope that is not forged; and when
\* the envelope served for the inode that a path names (or for the uuid asked
\* for) is forged, decode fails with BadSignature and getfile, listdir, stat
\* and getinode return an error.
C34_ReadsVerify ==
    ds.exists =>
        /\ \A P \in Paths, force \in BOOLEAN :
               LET g == cli_datastore_getfile(store, ENOENT, P, force)
                   l == cli_datastore_listdir(store, ENOENT, P, force)
                   t == cli_datastore_stat(store, ENOENT, P, force)
                   u == LeafUuid(store, P, force)
               IN  /\ \A r \in {g, l, t} :
                          ~r.error => /\ ~ServedForged(store, r.uuid)
                                      /\ r.inode = driver_get(store, r.uuid)
                   /\ (u # 0 /\ ServedForged(store, u)) =>
                          /\ load_inode(store, u, force) = BadSignature
                          /\ g.error /\ l.error /\ t.error
        /\ \A u \in Uuids :
               ServedForged(store, u) => getinode(store, u).error

\* the drivers serve a forged envelope for a file that a path names, and a
\* genuine one for its parent directory
C34_Witness ==
    \E P \in LeafPaths :
        /\ ds.exists
        /\ LeafUuid(store, P, FALSE) # 0
        /\ ServedForged(store, LeafUuid(store, P, FALSE))
        /\ driver_get(store, LeafUuid(store, P, FALSE)).data = <<"z">>
        /\ getfile(store, P).error

\* C35: a storage-driver fault or timeout during an operation aborts the
\* operation and is returned to the caller as an error: the step at which a
\* driver call fails writes nothing and ends the operation with an error that
\* names an errno, and after it nothing is written and no driver call is
\* issued until a command is called again.
C35_FaultAborts ==
    [][(job' # job) =>
        /\ (job'.faults > job.faults) =>
               /\ job'.pc = "failed"
               /\ job'.errno # 0
               /\ job'.done = job.done
               /\ store' = store
        /\ (job.pc = "failed") => (job'.pc = "start" /\ store' = store)
      ]_vars

\* a driver call of an rmtree that had tombstoned an inode has failed
C35_Witness ==
    /\ job.pc = "failed"
    /\ job.faults > 0
    /\ job.errno = EPERM
    /\ job.op = "rmtree"
    /\ job.done # {}
    /\ job.failed \notin job.done

\* get_wallet refused the connection at every attempt made
AllRefused(w) ==
    \A n \in 1..w.attempts : w.outcomes[n] = "ECONNREFUSED"

\* C36: get_wallet_with_backoff makes at most three attempts to get the
\* wallet; when every attempt is refused with ECONNREFUSED it returns a dict
\* with an 'error' key, never None; and an IOError/OSError with another errno
\* is re-raised at once, with no further attempt.
C36_BackoffReturnsError ==
    /\ wallet.attempts <= 3
    /\ wallet.pc = "returned" =>
           /\ wallet.wallet_keys # "None"
           /\ (wallet.attempts = 3 /\ AllRefused(wallet)) => wallet.wallet_keys = "error"
    /\ wallet.pc = "raised" =>
           /\ wallet.outcomes[wallet.attempts] = "EIO"
           /\ \A n \in 1..(wallet.attempts - 1) : wallet.outcomes[n] = "ECONNREFUSED"
    /\ (wallet.attempts > 0 /\ wallet.outcomes[wallet.attempts] = "EIO") =>
           wallet.pc = "raised"

\* the typed calls other than putfile, made with the datastore type t, return an
\* error and leave the store as it is
WrongTypeRefused(t) ==
    /\ get_datastore_by_type(store, ENOENT, t).error
    /\ \A force \in BOOLEAN, nodel \in SUBSET lazy_drivers :
           LET r == delete_datastore_by_type(store, ENOENT, t, force, LocalDevice, nodel)
           IN  r.res.error /\ r.st = store
    /\ \A P \in Paths, force \in BOOLEAN :
           /\ datastore_file_get(store, ENOENT, t, P, force).error
           /\ datastore_dir_list(store, ENOENT, t, P, force).error
           /\ datastore_path_stat(store, ENOENT, t, P, force).error
    /\ \A u \in Uuids : datastore_inode_getinode(store, ENOENT, t, u).error

\* C37: every type-qualified datastore call (get datastore, delete datastore,
\* getfile, putfile, listdir, stat, getinode) made with a datastore_type that
\* differs from the type in the datastore record returns an error and reads,
\* writes and deletes nothing: a delete with the wrong type leaves the
\* datastore and its inodes as they are, and a putfile with the wrong type
\* writes nothing.
C37_WrongTypeDoesNothing ==
    ds.exists =>
        \A t \in DatastoreTypes \ {ds.type} :
            /\ WrongTypeRefused(t)
            /\ \A P \in LeafPaths, create \in BOOLEAN :
                   LET r == datastore_file_put(store, ENOENT, t, P, <<"x">>, create,
                                               TRUE, FALSE, LocalDevice)
                   IN  r.res.error /\ r.st = store

StoredDeviceIds(field) == Range(get_all_device_ids_of(field))

NoDuplicateId(field) ==
    \A i, j \in DOMAIN get_all_device_ids_of(field) :
        get_all_device_ids_of(field)[i] = get_all_device_ids_of(field)[j] => i = j

\* C39: after any sequence of add_device_id and remove_device_id calls that
\* starts from a duplicate-free device list, the stored device list holds no
\* duplicate ID, holds d after add_device_id(d) and does not hold d after
\* remove_device_id(d); and adding an ID that is present, and removing one that
\* is absent, leave the set of device IDs as it is.
C39_DeviceListIsSet ==
    [][(last' # last \/ default_devices' # default_devices) =>
        /\ NoDuplicateId(default_devices')
        /\ last'.op = "add_device_id" =>
               /\ last'.path \in StoredDeviceIds(default_devices')
               /\ last'.path \in StoredDeviceIds(default_devices) =>
                      StoredDeviceIds(default_devices') = StoredDeviceIds(default_devices)
        /\ last'.op = "remove_device_id" =>
               /\ last'.path \notin StoredDeviceIds(default_devices')
               /\ last'.path \notin StoredDeviceIds(default_devices) =>
                      StoredDeviceIds(default_devices') = StoredDeviceIds(default_devices)
      ]_vars

\* the names in the queue q of a result of get_registrar_info
QueueNames(ret, q) ==
    IF q \in DOMAIN ret THEN {ret[q][i].name : i \in DOMAIN ret[q]} ELSE {}

\* C40: in the result of get_registrar_info no name that appears in the
\* register queue also appears in the preorder queue, for every backend state,
\* also when the preorder queue holds several entries for the same name.
C40_NoNameInBothQueues ==
    QueueNames(registrar.ret, "register") \cap QueueNames(registrar.ret, "preorder") = {}
====
